---- MODULE Spec2Model ----
(***************************************************************************)
(* SimpleMemJs: the hybrid index (stages/indexing.ts), the scorers         *)
(* (utils/similarity.ts), the retrieval controller and the answer          *)
(* generator (stages/retrieval.ts).                                        *)
(*                                                                         *)
(* Conventions.  A JavaScript string is a sequence of one-character        *)
(* strings.  Floating-point values are fixed-point integers:               *)
(*   cosine similarity       in hundredths   (1.0  = 100)                  *)
(*   BM25 idf and scores     in thousandths  (1.0  = 1000)                 *)
(*   hybrid scores           in 1/10000      (1.0  = 10000)                *)
(* The vectors used have integral norms, so cosine values are exact.       *)
(***************************************************************************)
EXTENDS Integers, Sequences, FiniteSets, TLC

VARIABLES
  units,         \* HybridIndex.units: Map<string, MemoryUnit>, in insertion order
  bm25,          \* HybridIndex.bm25: the BM25Scorer's fields
  needsRebuild,  \* HybridIndex.needsRebuild
  op,            \* the last completed HybridIndex call and how it ended
  res,           \* the SearchResult[] the last search returned
  latest,        \* per unit id, the content the last successful addUnits gave it
  nOps,          \* HybridIndex calls made so far
  config,        \* HybridRetriever.config
  pc,            \* position of the running retrieve / generate call
  rt,            \* the locals of the running retrieve call
  gen,           \* the arguments of the running or last generate call
  calls,         \* oracle calls issued by the running or last call, by kind
  out,           \* how the last retrieve / generate call ended
  flight,        \* the locals of a hybridSearch call between its awaits
  builder,       \* the MemoryBuilder's fields
  bcall,         \* the running or last MemoryBuilder call and its locals
  fed,           \* the dialogue ids the buffer accepted and the windows handed on
  storage,       \* the FileStorage's fields
  file,          \* the JSON file of the FileStorage
  forced,        \* a second FileStorage and its file, loaded before its first call
  inflight,      \* the FileStorage calls between their awaits
  mem,           \* the SimpleMem's fields
  mcall          \* the running or last SimpleMem call and its locals

vars ==
  <<units, bm25, needsRebuild, op, res, latest, nOps, config, pc, rt, gen, calls, out,
    flight, builder, bcall, fed, storage, file, forced, inflight, mem, mcall>>

indexVars == <<units, bm25, needsRebuild>>
retrVars == <<config, pc, rt, gen, calls, out, flight>>
builderVars == <<builder, bcall, fed>>
storageVars == <<storage, file, forced, inflight>>
outerVars == <<builderVars, storageVars, mem, mcall>>

-----------------------------------------------------------------------------
(* Bounds of the model *)

\* largest topK handed to a search
MaxTopK == 2
\* longest batch handed to addUnits
MaxBatch == 2
\* most HybridIndex calls made on one index
MaxOps == 3
\* largest maxReflectionRounds a retriever is configured with
MaxRounds == 2

-----------------------------------------------------------------------------
(* Texts *)

\* "Al met Bob"
T_a1 ==
  <<"A","l"," ","m","e","t"," ","B","o","b">>
\* "Al met Bob at Cafe!"
T_a2 ==
  <<"A","l"," ","m","e","t"," ","B","o","b"," ","a","t"," ","C","a","f","e","!">>
\* "Bob has a report"
T_b ==
  <<"B","o","b"," ","h","a","s"," ","a"," ","r","e","p","o","r","t">>
\* "Sara got a job"
T_c ==
  <<"S","a","r","a"," ","g","o","t"," ","a"," ","j","o","b">>
\* "where did Al meet Bob"
Q1 ==
  <<"w","h","e","r","e"," ","d","i","d"," ","A","l"," ","m","e","e","t"," ","B","o","b">>
\* "report"
Q2 ==
  <<"r","e","p","o","r","t">>
\* " Cafe  job?"
Q3 ==
  <<" ","C","a","f","e"," "," ","j","o","b","?">>

Queries == {Q1, Q2, Q3}

Min(a, b) == IF a <= b THEN a ELSE b
Max(a, b) == IF a >= b THEN a ELSE b

\* String.prototype.toLowerCase, one character
LowerChar(c) ==
  CASE c = "A" -> "a" [] c = "B" -> "b" [] c = "C" -> "c" [] c = "S" -> "s"
    [] c = "Y" -> "y" [] c = "N" -> "n" [] OTHER -> c

toLowerCase(s) == [i \in 1..Len(s) |-> LowerChar(s[i])]

\* the regular expression classes \s and \w on the characters in use
IsSpace(c) == c \in {" ", "\n"}
IsWordChar(c) == c \notin {" ", "\n", "!", "?", ",", ".", ":"}

\* Array.prototype.slice(0, k)
Slice0(s, k) ==
  IF k >= 0 THEN SubSeq(s, 1, Min(k, Len(s)))
  ELSE SubSeq(s, 1, Max(Len(s) + k, 0))

RECURSIVE DropSpaces(_)
DropSpaces(s) ==
  IF s # <<>> /\ IsSpace(Head(s)) THEN DropSpaces(Tail(s)) ELSE s

RECURSIVE SplitFrom(_, _, _)
SplitFrom(s, cur, acc) ==
  IF s = <<>> THEN Append(acc, cur)
  ELSE IF IsSpace(Head(s)) THEN SplitFrom(DropSpaces(Tail(s)), <<>>, Append(acc, cur))
  ELSE SplitFrom(Tail(s), Append(cur, Head(s)), acc)

\* String.prototype.split(/\s+/): the pieces between maximal runs of white
\* space; a leading or trailing run leaves an empty piece
SplitWs(s) == SplitFrom(s, <<>>, <<>>)

\* String.prototype.includes
Includes(s, t) ==
  \E i \in 1..(Len(s) - Len(t) + 1) : SubSeq(s, i, i + Len(t) - 1) = t

\* Array.prototype.join(sep) of strings
RECURSIVE Join(_, _)
Join(ss, sep) ==
  IF ss = <<>> THEN <<>>
  ELSE IF Len(ss) = 1 THEN ss[1]
  ELSE ss[1] \o sep \o Join(Tail(ss), sep)

RECURSIVE SumSeq(_)
SumSeq(s) == IF s = <<>> THEN 0 ELSE Head(s) + SumSeq(Tail(s))

Range(s) == {s[i] : i \in 1..Len(s)}

-----------------------------------------------------------------------------
(* utils/similarity.ts: cosineSimilarity *)

RECURSIVE Isqrt(_, _)
Isqrt(n, r) == IF (r + 1) * (r + 1) > n THEN r ELSE Isqrt(n, r + 1)

\* Math.sqrt on the integers in use (exact on perfect squares)
Sqrt(n) == Isqrt(n, 0)

Dot(a, b) == SumSeq([i \in 1..Len(a) |-> a[i] * b[i]])

\* the length check failing only when the first vector is the longer one
DimensionMismatch_longerOnly(a, b) == Len(a) > Len(b)

\* if (a.length !== b.length) throw new Error("Vector dimension mismatch ...")
DimensionMismatch(a, b) == Len(a) # Len(b)

\* cosineSimilarity(a, b) in hundredths; the caller checks DimensionMismatch,
\* on which the function throws
cosineSimilarity(a, b) ==
  LET normA == Sqrt(Dot(a, a))
      normB == Sqrt(Dot(b, b))
  IN  IF normA = 0 \/ normB = 0 THEN 0
      ELSE (Dot(a, b) * 100) \div (normA * normB)

-----------------------------------------------------------------------------
(* utils/similarity.ts: BM25Scorer *)

\* BM25Params defaults: k1 = 1.2 in tenths, b = 0.75 in hundredths
K1_x10 == 12
B_x100 == 75

\* new BM25Scorer()
NewBM25 == [documents |-> <<>>, avgNum |-> 0, avgDen |-> 1, idf |-> <<>>]

\* the texts the model handles: unit contents and queries
Texts == {T_a1, T_a2, T_b, T_c, Q1, Q2, Q3, <<>>}

\* BM25Scorer.tokenize
tokenizeText(text) ==
  LET lowered  == toLowerCase(text)
      replaced == [i \in 1..Len(lowered) |->
                     IF IsWordChar(lowered[i]) \/ IsSpace(lowered[i])
                     THEN lowered[i] ELSE " "]
  IN  SelectSeq(SplitWs(replaced), LAMBDA t : Len(t) > 0)

\* tokenizeText, computed once per text
TokenTable == [text \in Texts |-> tokenizeText(text)]
tokenize(text) == TokenTable[text]

RECURSIVE LnTerms(_, _, _, _, _)
LnTerms(term, k, n, p2, q2) ==
  IF k > n THEN 0
  ELSE term \div (2 * k + 1) + LnTerms((term * p2) \div q2, k + 1, n, p2, q2)

\* Math.log(num / den) in thousandths, for num >= den > 0:
\* ln x = 2 artanh((x - 1) / (x + 1)), summed in millionths
LnMilli(num, den) ==
  LET p == num - den
      q == num + den
  IN  (2 * LnTerms((1000000 * p) \div q, 0, 14, p * p, q * q) + 500) \div 1000

\* the idf without the 1 added inside the logarithm:
\* Math.log((N - df + 0.5) / (df + 0.5)), negative from half of the documents on
IdfOf_unsmoothed(N, df) ==
  IF N - df >= df THEN LnMilli(2 * (N - df) + 1, 2 * df + 1)
  ELSE 0 - LnMilli(2 * df + 1, 2 * (N - df) + 1)

\* the idf of a term found in df of N documents:
\* Math.log((N - df + 0.5) / (df + 0.5) + 1) = ln((2N + 2) / (2df + 1))
IdfOf(N, df) == LnMilli(2 * N + 2, 2 * df + 1)

\* the most documents a scorer is given: one per unit id
MaxDocs == 3

\* the units of the one larger index a retriever is run on
CrowdSize == 16

\* IdfOf, computed once per document count and document frequency
IdfTable == [N \in (1..MaxDocs) \cup {CrowdSize} |-> [df \in 1..N |-> IdfOf(N, df)]]
Idf(N, df) == IdfTable[N][df]

\* the Map idf as a function from the terms it holds; get(term) ?? 0
IdfGet(idf, term) == IF term \in DOMAIN idf THEN idf[term] ELSE 0

\* addDocuments appending to the documents it holds
addDocuments_incremental(scorer, docs) ==
  LET documents   == scorer.documents \o [i \in 1..Len(docs) |-> tokenize(docs[i])]
      N           == Len(documents)
      totalLength == SumSeq([i \in 1..N |-> Len(documents[i])])
      terms       == UNION {Range(documents[i]) : i \in 1..N}
      df          == [t \in terms |->
                        Cardinality({i \in 1..N : t \in Range(documents[i])})]
      newIdf      == [t \in terms |-> IdfOf(N, df[t])]
  IN  [documents |-> documents,
       avgNum    |-> IF N = 0 \/ totalLength = 0 THEN 1 ELSE totalLength,
       avgDen    |-> IF N = 0 \/ totalLength = 0 THEN 1 ELSE N,
       idf       |-> [t \in (DOMAIN scorer.idf) \cup terms |->
                       IF t \in terms THEN newIdf[t] ELSE scorer.idf[t]]]

\* BM25Scorer.addDocuments: documents and avgDocLength are replaced, idf
\* entries are set for the terms of the new documents
addDocuments(scorer, docs) ==
  LET documents   == [i \in 1..Len(docs) |-> tokenize(docs[i])]
      N           == Len(documents)
      totalLength == SumSeq([i \in 1..N |-> Len(documents[i])])
      terms       == UNION {Range(documents[i]) : i \in 1..N}
      df          == [t \in terms |->
                        Cardinality({i \in 1..N : t \in Range(documents[i])})]
      newIdf      == [t \in terms |-> Idf(N, df[t])]
  IN  [documents |-> documents,
       \* totalLength / N || 1
       avgNum    |-> IF N = 0 \/ totalLength = 0 THEN 1 ELSE totalLength,
       avgDen    |-> IF N = 0 \/ totalLength = 0 THEN 1 ELSE N,
       idf       |-> [t \in (DOMAIN scorer.idf) \cup terms |->
                       IF t \in terms THEN newIdf[t] ELSE scorer.idf[t]]]

TermFreq(doc, term) == Cardinality({i \in 1..Len(doc) : doc[i] = term})

\* one query term's contribution to one document's score, in thousandths
TermScore(scorer, doc, term) ==
  LET tf  == TermFreq(doc, term)
      idf == IdfGet(scorer.idf, term)
      numerator   == tf * (K1_x10 + 10) * 10 * scorer.avgNum
      denominator == 100 * tf * scorer.avgNum
                     + (K1_x10 * ((100 - B_x100) * scorer.avgNum
                                  + B_x100 * Len(doc) * scorer.avgDen)) \div 10
  IN  IF tf > 0 /\ idf > 0 THEN (idf * numerator) \div denominator ELSE 0

\* BM25Scorer.score: one score per document
score(scorer, query) ==
  LET queryTerms == tokenize(query)
  IN  [d \in 1..Len(scorer.documents) |->
         SumSeq([j \in 1..Len(queryTerms) |->
                   TermScore(scorer, scorer.documents[d], queryTerms[j])])]

\* Array.prototype.sort((a, b) => b.score - a.score) on records with a score
\* field: stable and descending
RECURSIVE InsertDesc(_, _)
InsertDesc(sorted, x) ==
  IF sorted = <<>> THEN <<x>>
  ELSE IF Head(sorted).score >= x.score
       THEN <<Head(sorted)>> \o InsertDesc(Tail(sorted), x)
       ELSE <<x>> \o sorted

RECURSIVE SortDescFrom(_, _)
SortDescFrom(s, acc) ==
  IF s = <<>> THEN acc
  ELSE SortDescFrom(Tail(s), InsertDesc(acc, Head(s)))

SortDesc(s) == SortDescFrom(s, <<>>)

\* BM25Scorer.topK: [index, score] pairs, the index counted from 1
topK(scorer, query, k) ==
  LET scores == score(scorer, query)
      pairs  == [i \in 1..Len(scores) |-> [index |-> i, score |-> scores[i]]]
      kept   == SelectSeq(pairs, LAMBDA p : p.score > 0)
  IN  Slice0(SortDesc(kept), k)

-----------------------------------------------------------------------------
(* Memory units, filters and the embedding provider *)

\* an absent optional string ("" and undefined are both falsy)
NoText == <<>>
\* an absent optional timestamp; timestamps are instants counted from 1
NoTime == 0

Al  == <<"A","l">>
Bob == <<"B","o","b">>
Lab == <<"l","a","b">>

MkUnit(id, content, hasEmb, emb, ts, loc) ==
  [id |-> id, content |-> content, hasEmbedding |-> hasEmb, embedding |-> emb,
   timestamp |-> ts, location |-> loc, topic |-> NoText,
   persons |-> IF Includes(content, Bob) THEN <<Al, Bob>> ELSE <<>>,
   entities |-> <<>>]

\* the units callers hand to addUnits: u1 in two versions with different
\* content, the second already carrying an embedding
U1a == MkUnit("u1", T_a1, FALSE, <<>>, 5, NoText)
U1b == MkUnit("u1", T_a2, TRUE, <<4, 3>>, 5, Lab)
U2  == MkUnit("u2", T_b, FALSE, <<>>, NoTime, Lab)
U3  == MkUnit("u3", T_c, TRUE, <<0, 1>>, 9, NoText)
Pool == {U1a, U1b, U2, U3}
UnitIds == {u.id : u \in Pool}

\* the value unitsArray[index] has past the end of the array
UndefinedUnit == MkUnit("undefined", NoText, FALSE, <<>>, NoTime, NoText)

\* the vector the embedding model gives a text
Embedding(text) ==
  CASE text = T_a1 -> <<3, 4>>
    [] text = T_a2 -> <<4, 3>>
    [] text = T_b  -> <<1, 0>>
    [] text = T_c  -> <<0, 1>>
    [] text = Q1   -> <<3, 4>>
    [] text = Q2   -> <<1, 0>>
    [] OTHER       -> <<0, 0>>

\* EmbeddingProvider.embed: one vector per text, in order, or a failure
embed(texts, providerOk) ==
  [ok |-> providerOk,
   vectors |-> IF providerOk THEN [i \in 1..Len(texts) |-> Embedding(texts[i])]
               ELSE <<>>]

\* QueryFilter; given = FALSE is the omitted (undefined) filter
NoFilter ==
  [given |-> FALSE, persons |-> <<>>, entities |-> <<>>, hasRange |-> FALSE,
   start |-> NoTime, end |-> NoTime, location |-> NoText, topic |-> NoText]

RangeFilter(start, end) ==
  [NoFilter EXCEPT !.given = TRUE, !.hasRange = TRUE, !.start = start, !.end = end]

\* isWithinRange with both bounds excluded
isWithinRange_exclusive(timestamp, start, end) == start < timestamp /\ timestamp < end

\* utils/temporal.ts isWithinRange on valid instants
isWithinRange(timestamp, start, end) == start <= timestamp /\ timestamp <= end

\* matchesFilter holding a unit to each bound of the range that is set
matchesFilter_eachBound(unit, filter) ==
  /\ Len(filter.persons) > 0 =>
       \E i \in 1..Len(filter.persons), j \in 1..Len(unit.persons) :
          Includes(toLowerCase(unit.persons[j]), toLowerCase(filter.persons[i]))
  /\ Len(filter.entities) > 0 =>
       \E i \in 1..Len(filter.entities), j \in 1..Len(unit.entities) :
          Includes(toLowerCase(unit.entities[j]), toLowerCase(filter.entities[i]))
  /\ (filter.hasRange /\ unit.timestamp # NoTime) =>
       /\ filter.start # NoTime => filter.start <= unit.timestamp
       /\ filter.end # NoTime => unit.timestamp <= filter.end
  /\ (filter.location # NoText /\ unit.location # NoText) =>
       Includes(toLowerCase(unit.location), toLowerCase(filter.location))
  /\ (filter.topic # NoText /\ unit.topic # NoText) =>
       Includes(toLowerCase(unit.topic), toLowerCase(filter.topic))

\* HybridIndex.matchesFilter
matchesFilter(unit, filter) ==
  /\ Len(filter.persons) > 0 =>
       \E i \in 1..Len(filter.persons), j \in 1..Len(unit.persons) :
          Includes(toLowerCase(unit.persons[j]), toLowerCase(filter.persons[i]))
  /\ Len(filter.entities) > 0 =>
       \E i \in 1..Len(filter.entities), j \in 1..Len(unit.entities) :
          Includes(toLowerCase(unit.entities[j]), toLowerCase(filter.entities[i]))
  /\ (filter.hasRange /\ unit.timestamp # NoTime) =>
       ~(filter.start # NoTime /\ filter.end # NoTime
         /\ ~isWithinRange(unit.timestamp, filter.start, filter.end))
  /\ (filter.location # NoText /\ unit.location # NoText) =>
       Includes(toLowerCase(unit.location), toLowerCase(filter.location))
  /\ (filter.topic # NoText /\ unit.topic # NoText) =>
       Includes(toLowerCase(unit.topic), toLowerCase(filter.topic))

-----------------------------------------------------------------------------
(* stages/indexing.ts: HybridIndex *)

\* DEFAULT_INDEXING_CONFIG; the weights in tenths
SemanticTopK == 25
KeywordTopK == 5
StructuredTopK == 5
SemanticWeight_x10 == 6
LexicalWeight_x10 == 3
SymbolicWeight_x10 == 1

\* Map.prototype.has / get / set / delete on the insertion-ordered units
MapHas(m, id) == \E i \in 1..Len(m) : m[i].id = id
MapGet(m, id) == m[CHOOSE i \in 1..Len(m) : m[i].id = id]
\* a set that appends without looking for the key
MapSet_append(m, unit) == Append(m, unit)
MapSet(m, unit) ==
  IF MapHas(m, unit.id)
  THEN [i \in 1..Len(m) |-> IF m[i].id = unit.id THEN unit ELSE m[i]]
  ELSE Append(m, unit)
MapDelete(m, id) == SelectSeq(m, LAMBDA u : u.id # id)

RECURSIVE MapSetAll(_, _)
MapSetAll(m, batch) ==
  IF batch = <<>> THEN m ELSE MapSetAll(MapSet(m, Head(batch)), Tail(batch))

\* addUnits with the insertion loop ahead of the embedding request
addUnits_insertFirst(m, batch, providerOk) ==
  LET ok == providerOk \/ \A i \in 1..Len(batch) : batch[i].hasEmbedding
      after == [i \in 1..Len(batch) |->
                  IF batch[i].hasEmbedding \/ ~ok THEN batch[i]
                  ELSE [batch[i] EXCEPT !.hasEmbedding = TRUE,
                                        !.embedding = Embedding(batch[i].content)]]
  IN  [threw |-> ~ok, units |-> MapSetAll(m, after), batch |-> after, dirty |-> ok]

\* addUnits that upserts the units already carrying an embedding before it
\* requests the others' embeddings
addUnits_upsertEmbedded(m, batch, providerOk) ==
  LET ok == providerOk \/ \A i \in 1..Len(batch) : batch[i].hasEmbedding
      after == [i \in 1..Len(batch) |->
                  IF batch[i].hasEmbedding \/ ~ok THEN batch[i]
                  ELSE [batch[i] EXCEPT !.hasEmbedding = TRUE,
                                        !.embedding = Embedding(batch[i].content)]]
  IN  [threw |-> ~ok,
       units |-> IF ok THEN MapSetAll(m, after)
                 ELSE MapSetAll(m, SelectSeq(batch, LAMBDA u : u.hasEmbedding)),
       batch |-> after, dirty |-> ok]

\* every unit of the batch taken as needing an embedding
unitsNeedingEmbeddings_all(batch) == {i \in 1..Len(batch) : TRUE}

\* the indices of the units of a batch that carry no embedding
unitsNeedingEmbeddings(batch) == {i \in 1..Len(batch) : ~batch[i].hasEmbedding}

\* the position of batch[i] among the units needing an embedding
RankAmong(need, i) == Cardinality({j \in need : j <= i})

\* unitsNeedingEmbeddings.map((u) => u.content)
textsOf(batch) ==
  LET need == unitsNeedingEmbeddings(batch)
  IN  [r \in 1..Cardinality(need) |->
         batch[CHOOSE i \in need : RankAmong(need, i) = r].content]

\* HybridIndex.addUnits once the provider has answered with vectors: attach
\* embeddings[i] (undefined past the end of the reply), insert, mark dirty
addUnitsGot(m, batch, vectors) ==
  LET need  == unitsNeedingEmbeddings(batch)
      after == [i \in 1..Len(batch) |->
                  IF i \in need /\ RankAmong(need, i) <= Len(vectors)
                  THEN [batch[i] EXCEPT !.hasEmbedding = TRUE,
                                        !.embedding = vectors[RankAmong(need, i)]]
                  ELSE batch[i]]
  IN  [threw |-> FALSE, units |-> MapSetAll(m, after), batch |-> after,
       dirty |-> TRUE]

\* HybridIndex.addUnits: the units map and the caller's unit objects after
\* the call, and whether it threw
addUnits(m, batch, providerOk) ==
  LET got == embed(textsOf(batch), providerOk)
  IN  IF unitsNeedingEmbeddings(batch) # {} /\ ~got.ok
      THEN [threw |-> TRUE, units |-> m, batch |-> batch, dirty |-> FALSE]
      ELSE addUnitsGot(m, batch, got.vectors)

\* HybridIndex.getAllUnits and HybridIndex.size
getAllUnits(m) == m
size(m) == Len(m)

\* HybridIndex.rebuildLexicalIndex: the scorer after the rebuild
rebuildLexicalIndex(m, scorer) ==
  addDocuments(scorer, [i \in 1..Len(m) |-> m[i].content])

\* semanticScored without the skip of units that have no embedding
semanticScored_noSkip(m, queryEmbedding, k) ==
  LET results == [i \in 1..Len(m) |->
                    [unit |-> m[i],
                     score |-> cosineSimilarity(queryEmbedding, m[i].embedding),
                     matchType |-> "semantic"]]
  IN  IF \E i \in 1..Len(m) : DimensionMismatch(queryEmbedding, m[i].embedding)
      THEN [threw |-> TRUE, results |-> <<>>]
      ELSE [threw |-> FALSE, results |-> Slice0(SortDesc(results), k)]

\* HybridIndex.semanticSearch after the query embedding has arrived
semanticScored(m, queryEmbedding, k) ==
  LET withEmb == SelectSeq(m, LAMBDA u : u.hasEmbedding)
      results == [i \in 1..Len(withEmb) |->
                    [unit |-> withEmb[i],
                     score |-> cosineSimilarity(queryEmbedding, withEmb[i].embedding),
                     matchType |-> "semantic"]]
  IN  IF \E i \in 1..Len(withEmb) :
           DimensionMismatch(queryEmbedding, withEmb[i].embedding)
      THEN [threw |-> TRUE, results |-> <<>>]
      ELSE [threw |-> FALSE, results |-> Slice0(SortDesc(results), k)]

\* HybridIndex.semanticSearch
semanticSearch(m, query, k, providerOk) ==
  LET got == embed(<<query>>, providerOk)
  IN  IF ~got.ok THEN [threw |-> TRUE, results |-> <<>>]
      ELSE semanticScored(m, got.vectors[1], k)

\* keywordSearch without the rebuild of a lexical index marked stale
keywordSearch_noRebuild(m, scorer, dirty, query, k) ==
  LET top == topK(scorer, query, k)
  IN  [bm25 |-> scorer,
       results |-> [i \in 1..Len(top) |->
                      [unit |-> IF top[i].index <= Len(m) THEN m[top[i].index]
                                ELSE UndefinedUnit,
                       score |-> top[i].score,
                       matchType |-> "lexical"]]]

\* HybridIndex.keywordSearch: the results and the scorer it leaves
keywordSearch(m, scorer, dirty, query, k) ==
  LET fresh == IF dirty THEN rebuildLexicalIndex(m, scorer) ELSE scorer
      top   == topK(fresh, query, k)
  IN  [bm25 |-> fresh,
       results |-> [i \in 1..Len(top) |->
                      [unit |-> IF top[i].index <= Len(m) THEN m[top[i].index]
                                ELSE UndefinedUnit,
                       score |-> top[i].score,
                       matchType |-> "lexical"]]]

\* HybridIndex.structuredSearch
structuredSearch(m, filter, k) ==
  LET hits == SelectSeq(m, LAMBDA u : matchesFilter(u, filter))
  IN  Slice0([i \in 1..Len(hits) |->
                [unit |-> hits[i], score |-> 1000, matchType |-> "symbolic"]], k)

\* utils/similarity.ts computeHybridScore, in 1/10000
computeHybridScore(semanticScore, lexicalScore, matchesConstraints, alpha, beta, gamma) ==
  LET symbolicBonus == IF matchesConstraints THEN gamma * 1000 ELSE 0
  IN  alpha * semanticScore * 10 + beta * lexicalScore + symbolicBonus

RECURSIVE Dedup(_, _)
Dedup(s, acc) ==
  IF s = <<>> THEN acc
  ELSE Dedup(Tail(s), IF Head(s) \in Range(acc) THEN acc ELSE Append(acc, Head(s)))

RECURSIVE MaxOf(_, _)
MaxOf(s, least) ==
  IF s = <<>> THEN least ELSE MaxOf(Tail(s), Max(Head(s), least))

\* Map<string, number>.get(id) ?? 0 on the entries set in order: the last
\* score set for id
ScoreOf(scores, id) ==
  LET hits == {i \in 1..Len(scores) : scores[i].id = id}
  IN  IF hits = {} THEN 0
      ELSE scores[CHOOSE i \in hits : \A j \in hits : j <= i].score

\* the candidate ids taken from the semantic layer alone
allUnitIds_semanticOnly(semanticResults, keywordResults) ==
  Dedup([i \in 1..Len(semanticResults) |-> semanticResults[i].unit.id], <<>>)

\* new Set([...semanticScores.keys(), ...lexicalScores.keys()]), in
\* insertion order
allUnitIds(semanticResults, keywordResults) ==
  Dedup([i \in 1..Len(semanticResults) |-> semanticResults[i].unit.id]
        \o [i \in 1..Len(keywordResults) |-> keywordResults[i].unit.id], <<>>)

\* the bonus condition holding only under a filter that matches
matchesConstraints_filterOnly(unit, filter) ==
  filter.given /\ matchesFilter(unit, filter)

\* filter ? this.matchesFilter(unit, filter) : true
matchesConstraints(unit, filter) ==
  IF filter.given THEN matchesFilter(unit, filter) ELSE TRUE

\* HybridIndex.hybridSearch from the two layers' results up to the sort:
\* normalise, form the union of ids, score each unit still in the map m;
\* gamma is config.symbolicWeight in tenths
hybridScored(m, semanticResults, keywordResults, filter, gamma) ==
  LET maxBM25 == MaxOf([i \in 1..Len(keywordResults) |-> keywordResults[i].score], 1000)
      semanticScores ==
        [i \in 1..Len(semanticResults) |->
           [id |-> semanticResults[i].unit.id, score |-> semanticResults[i].score]]
      lexicalScores ==
        [i \in 1..Len(keywordResults) |->
           [id |-> keywordResults[i].unit.id,
            score |-> (keywordResults[i].score * 1000) \div maxBM25]]
      present == SelectSeq(allUnitIds(semanticResults, keywordResults),
                           LAMBDA id : MapHas(m, id))
  IN  [i \in 1..Len(present) |->
         [unit |-> MapGet(m, present[i]),
          score |-> computeHybridScore(
                      ScoreOf(semanticScores, present[i]),
                      ScoreOf(lexicalScores, present[i]),
                      matchesConstraints(MapGet(m, present[i]), filter),
                      SemanticWeight_x10, LexicalWeight_x10, gamma),
          matchType |-> "hybrid"]]

\* hybridMerge truncating to the layers' depth 2k instead of k
hybridMerge_overFetch(m, semanticResults, keywordResults, filter, k) ==
  Slice0(SortDesc(hybridScored(m, semanticResults, keywordResults, filter,
                               SymbolicWeight_x10)), k * 2)

\* hybridMerge dropping the candidates that fail the filter
hybridMerge_excluding(m, semanticResults, keywordResults, filter, k) ==
  Slice0(SortDesc(SelectSeq(hybridScored(m, semanticResults, keywordResults, filter,
                                         SymbolicWeight_x10),
                            LAMBDA r : matchesConstraints(r.unit, filter))), k)

\* HybridIndex.hybridSearch from the two layers' results on: score, sort,
\* truncate; m is this.units at that moment
hybridMerge(m, semanticResults, keywordResults, filter, k) ==
  Slice0(SortDesc(hybridScored(m, semanticResults, keywordResults, filter,
                               SymbolicWeight_x10)), k)

\* topK ?? this.config.semanticTopK; an omitted topK is <<>>
DepthOf(topKArg) == IF topKArg = <<>> THEN SemanticTopK ELSE topKArg[1]

\* HybridIndex.hybridSearch, run without interleaving: the keyword layer (and
\* its lazy rebuild) runs before the query embedding is awaited, so the
\* scorer is rebuilt even when the call throws
hybridSearch(m, scorer, dirty, query, filter, topKArg, providerOk) ==
  LET k   == DepthOf(topKArg)
      kw  == keywordSearch(m, scorer, dirty, query, k * 2)
      sem == semanticSearch(m, query, k * 2, providerOk)
      bad == \E i \in 1..Len(kw.results) : kw.results[i].unit = UndefinedUnit
  IN  [bm25 |-> kw.bm25,
       threw |-> sem.threw \/ bad,
       results |-> IF sem.threw \/ bad THEN <<>>
                   ELSE hybridMerge(m, sem.results, kw.results, filter, k)]

-----------------------------------------------------------------------------
(* The HybridIndex as a state machine; calls are serialized *)

\* sequences over S of length lo..hi
SeqsOf(S, lo, hi) == UNION {[1..n -> S] : n \in lo..hi}

\* the units of Pool in batches of lo..hi units, no unit twice in a batch
Batches(lo, hi) ==
  {b \in SeqsOf(Pool, lo, hi) : \A i, j \in 1..Len(b) : b[i] = b[j] => i = j}

NoOp ==
  [name |-> "none", outcome |-> "none", batch |-> <<>>, after |-> <<>>,
   replaced |-> 0, id |-> "", query |-> NoText, filter |-> NoFilter,
   topK |-> <<>>]

Filters == {NoFilter, RangeFilter(1, 6)}
TopKArgs == {<<>>} \cup {<<k>> : k \in 0..MaxTopK}

\* DEFAULT_RETRIEVAL_CONFIG; complexityDelta in tenths
DefaultConfig ==
  [baseK |-> 3, complexityDelta_x10 |-> 20, enablePlanning |-> TRUE,
   enableReflection |-> TRUE, maxReflectionRounds |-> 2]

\* temporal_constraints of a query analysis; given = FALSE when omitted
NoTemporal == [given |-> FALSE, start |-> NoTime, end |-> NoTime]

\* the locals of retrieve and reflectionSearch; planned = FALSE while
\* analysis is null; firstDepth, firstQuery and firstFilter are the arguments
\* of the first hybridSearch call once it is made
IdleRt ==
  [query |-> NoText, planned |-> FALSE, fellBack |-> FALSE,
   complexity |-> "none", rationale |-> "none", lexicalKeywords |-> <<>>,
   temporal |-> NoTemporal, semanticQuery |-> NoText,
   filter |-> NoFilter, dynamicK |-> 0, searchQuery |-> NoText,
   firstDepth |-> <<>>, firstQuery |-> NoText, firstFilter |-> NoFilter,
   allUnits |-> <<>>, round |-> 0, pending |-> <<>>]

NoGen == [query |-> NoText, units |-> <<>>, promptJSON |-> <<>>, promptText |-> <<>>]

\* caught counts the failures the reflection loop's catch blocks swallowed
NoCalls ==
  [completeJSON |-> 0, complete |-> 0, adequacy |-> 0, followUp |-> 0, caught |-> 0]

\* no hybridSearch call is between its awaits
NoFlight ==
  [stage |-> "none", query |-> NoText, filter |-> NoFilter, topK |-> <<>>,
   keywordResults |-> <<>>, semanticResults |-> <<>>,
   lexicalOver |-> <<>>, semanticOver |-> <<>>]

NoOut ==
  [call |-> "none", outcome |-> "none", units |-> <<>>, totalTokens |-> 0,
   rationale |-> "none", text |-> NoText]

-----------------------------------------------------------------------------
(* The compression stage, the file storage and SimpleMem before their first call *)

\* DEFAULT_COMPRESSION_CONFIG; the threshold and the weight in hundredths
DefaultCompression ==
  [windowSize |-> 40, overlapSize |-> 2, redundancyThreshold_x100 |-> 30,
   entityWeight_x100 |-> 50]

\* previousWindowEmbedding = null
NoEmbedding == <<>>

\* new MemoryBuilder(llm, embeddings, compression)
NewBuilder(compression) ==
  [config |-> compression, dialogueBuffer |-> <<>>, processedDialogueIds |-> {},
   previousWindowEmbedding |-> NoEmbedding, previousEntities |-> {},
   windowCounter |-> 0]

\* no MemoryBuilder call has been made
NoBCall ==
  [name |-> "none", pc |-> "idle", window |-> <<>>, allUnits |-> <<>>,
   result |-> <<>>]

\* nothing was accepted into the buffer and no window was handed to
\* processWindow; handed holds the ids of the dialogues in the windows handed
\* on, adds counts the addDialogue calls and uuids the ids uuidv4 has given
NoFed == [accepted |-> {}, handed |-> {}, adds |-> 0, uuids |-> 0]

BuilderAtRest ==
  /\ builder = NewBuilder(DefaultCompression)
  /\ bcall = NoBCall
  /\ fed = NoFed

\* new FileStorage({ path, autoSave })
NewStorage(autoSave) == [units |-> <<>>, loaded |-> FALSE, autoSave |-> autoSave]

\* no file at the path: readFile fails with ENOENT
NoFile == [exists |-> FALSE, units |-> <<>>]

\* no FileStorage call is between its awaits; started counts the calls made,
\* merges the times ensureLoaded has put the content of a file into the units,
\* saved holds the units whose saveUnit has completed and found the units the
\* file held when the storage was constructed
NoInflight == [tasks |-> <<>>, started |-> 0, merges |-> 0, saved |-> {}, found |-> <<>>]

StorageAtRest ==
  /\ storage = NewStorage(TRUE)
  /\ file = NoFile
  /\ forced = [storage |-> NewStorage(TRUE), file |-> NoFile, last |-> "none"]
  /\ inflight = NoInflight

\* new SimpleMem(options)
NewMem == [dialogueCounter |-> 0, initialized |-> FALSE]

\* no SimpleMem call has been made
NoMCall == [name |-> "none", pc |-> "idle", outcome |-> "none", units |-> <<>>]

OuterAtRest ==
  /\ BuilderAtRest
  /\ StorageAtRest
  /\ mem = NewMem
  /\ mcall = NoMCall

RetrieverAtRest ==
  /\ config = DefaultConfig
  /\ pc = "idle"
  /\ rt = IdleRt
  /\ gen = NoGen
  /\ calls = NoCalls
  /\ out = NoOut
  /\ flight = NoFlight

\* a new HybridIndex
Init ==
  /\ units = <<>>
  /\ bm25 = NewBM25
  /\ needsRebuild = FALSE
  /\ op = NoOp
  /\ res = <<>>
  /\ latest = [id \in UnitIds |-> NoText]
  /\ nOps = 0
  /\ RetrieverAtRest
  /\ OuterAtRest

\* the content the last unit of the batch with this id carries
Called ==
  /\ nOps < MaxOps
  /\ nOps' = nOps + 1

LastContent(batch, id) ==
  batch[CHOOSE i \in 1..Len(batch) :
          /\ batch[i].id = id
          /\ \A j \in 1..Len(batch) : batch[j].id = id => j <= i].content

\* whether addUnits(batch) calls the embedding provider
NeedsEmbedding(batch) == \E i \in 1..Len(batch) : ~batch[i].hasEmbedding

AddUnits(batch, providerOk) ==
  LET r == addUnits(units, batch, providerOk)
  IN  /\ Called
      /\ units' = r.units
      /\ needsRebuild' = IF r.dirty THEN TRUE ELSE needsRebuild
      \* the arguments are kept for a call that threw
      /\ op' = IF r.threw
               THEN [NoOp EXCEPT !.name = "addUnits", !.outcome = "throw",
                                 !.batch = batch, !.after = r.batch]
               ELSE [NoOp EXCEPT !.name = "addUnits", !.outcome = "ok",
                                 !.replaced = Cardinality(
                                    {id \in UnitIds :
                                       /\ MapHas(units, id)
                                       /\ \E i \in 1..Len(batch) : batch[i].id = id})]
      /\ res' = <<>>
      /\ latest' = IF r.threw THEN latest
                   ELSE [id \in UnitIds |->
                           IF \E i \in 1..Len(batch) : batch[i].id = id
                           THEN LastContent(batch, id) ELSE latest[id]]
      /\ UNCHANGED <<bm25, retrVars, outerVars>>

\* removeUnit leaving the needsRebuild flag as it is
RemoveUnit_keepsFlag(id) ==
  /\ Called
  /\ units' = MapDelete(units, id)
  /\ needsRebuild' = needsRebuild
  /\ op' = [NoOp EXCEPT !.name = "removeUnit", !.outcome = "ok", !.id = id]
  /\ res' = <<>>
  /\ latest' = [latest EXCEPT ![id] = NoText]
  /\ UNCHANGED <<bm25, retrVars, outerVars>>

RemoveUnit(id) ==
  /\ Called
  /\ units' = MapDelete(units, id)
  /\ needsRebuild' = TRUE
  /\ op' = [NoOp EXCEPT !.name = "removeUnit", !.outcome = "ok", !.id = id]
  /\ res' = <<>>
  /\ latest' = [latest EXCEPT ![id] = NoText]
  /\ UNCHANGED <<bm25, retrVars, outerVars>>

Clear ==
  /\ Called
  /\ units' = <<>>
  /\ bm25' = NewBM25
  /\ needsRebuild' = FALSE
  /\ op' = [NoOp EXCEPT !.name = "clear", !.outcome = "ok"]
  /\ res' = <<>>
  /\ latest' = [id \in UnitIds |-> NoText]
  /\ UNCHANGED <<retrVars, outerVars>>

RebuildLexicalIndex ==
  /\ Called
  /\ bm25' = rebuildLexicalIndex(units, bm25)
  /\ needsRebuild' = FALSE
  /\ op' = [NoOp EXCEPT !.name = "rebuildLexicalIndex", !.outcome = "ok"]
  /\ res' = <<>>
  /\ UNCHANGED <<units, latest, retrVars, outerVars>>

HybridSearch(query, filter, topKArg, providerOk) ==
  \E r \in {hybridSearch(units, bm25, needsRebuild, query, filter, topKArg, providerOk)} :
      /\ Called
      /\ bm25' = r.bm25
      /\ needsRebuild' = FALSE
      /\ op' = [NoOp EXCEPT !.name = "hybridSearch",
                            !.outcome = IF r.threw THEN "throw" ELSE "ok",
                            !.query = query, !.filter = filter, !.topK = topKArg]
      /\ res' = r.results
      /\ UNCHANGED <<units, latest, retrVars, outerVars>>

\* topK ?? the layer's configured depth
DepthOr(topKArg, configured) == IF topKArg = <<>> THEN configured ELSE topKArg[1]

SemanticSearch(query, topKArg, providerOk) ==
  \E r \in {semanticSearch(units, query, DepthOr(topKArg, SemanticTopK), providerOk)} :
      /\ Called
      /\ op' = [NoOp EXCEPT !.name = "semanticSearch",
                            !.outcome = IF r.threw THEN "throw" ELSE "ok",
                            !.query = query, !.topK = topKArg]
      /\ res' = r.results
      /\ UNCHANGED <<units, bm25, needsRebuild, latest, retrVars, outerVars>>

KeywordSearch(query, topKArg) ==
  \E r \in {keywordSearch(units, bm25, needsRebuild, query,
                          DepthOr(topKArg, KeywordTopK))} :
      /\ Called
      /\ bm25' = r.bm25
      /\ needsRebuild' = FALSE
      /\ op' = [NoOp EXCEPT !.name = "keywordSearch", !.outcome = "ok",
                            !.query = query, !.topK = topKArg]
      /\ res' = r.results
      /\ UNCHANGED <<units, latest, retrVars, outerVars>>

StructuredSearch(filter, topKArg) ==
  /\ Called
  /\ op' = [NoOp EXCEPT !.name = "structuredSearch", !.outcome = "ok",
                        !.filter = filter, !.topK = topKArg]
  /\ res' = structuredSearch(units, filter, DepthOr(topKArg, StructuredTopK))
  /\ UNCHANGED <<units, bm25, needsRebuild, latest, retrVars, outerVars>>

Next ==
  \/ \E batch \in Batches(0, MaxBatch) :
       \E providerOk \in IF NeedsEmbedding(batch) THEN BOOLEAN ELSE {TRUE} :
          AddUnits(batch, providerOk)
  \/ \E id \in UnitIds : RemoveUnit(id)
  \/ Clear
  \/ RebuildLexicalIndex
  \/ \E query \in Queries, filter \in Filters, topKArg \in TopKArgs,
        providerOk \in BOOLEAN :
       HybridSearch(query, filter, topKArg, providerOk)
  \/ \E query \in Queries, topKArg \in TopKArgs : KeywordSearch(query, topKArg)

Spec == Init /\ [][Next]_vars

-----------------------------------------------------------------------------
(* Claims about the HybridIndex *)

IdsOf(m) == {m[i].id : i \in 1..Len(m)}

\* C1: after any sequence of addUnits, removeUnit and clear calls the index
\* holds at most one unit per id, a unit re-added under a present id has
\* replaced the stored one (the unit returned by getAllUnits carries the
\* content of the latest addUnits), and size counts the distinct ids.
C1_OneUnitPerId ==
  LET all == getAllUnits(units)
  IN  /\ \A i, j \in 1..Len(all) : all[i].id = all[j].id => i = j
      /\ \A i \in 1..Len(all) : all[i].content = latest[all[i].id]
      /\ \A id \in UnitIds : latest[id] # NoText => id \in IdsOf(all)
      /\ size(units) = Cardinality(IdsOf(all))

\* a successful addUnits has re-added u1, stored with other content before
C1_Witness ==
  /\ op.name = "addUnits" /\ op.outcome = "ok" /\ op.replaced > 0
  /\ Len(units) >= 2
  /\ MapHas(units, "u1") /\ MapGet(units, "u1").content = T_a2

\* C2: hybridSearch returns at most topK results, no unit id twice, ordered
\* by non-increasing hybrid score.
C2_TopKSortedDistinct ==
  (op.name = "hybridSearch" /\ op.outcome = "ok") =>
    /\ Len(res) <= DepthOf(op.topK)
    /\ \A i, j \in 1..Len(res) : res[i].unit.id = res[j].unit.id => i = j
    /\ \A i \in 1..(Len(res) - 1) : res[i].score >= res[i + 1].score

\* a search of three units for two results under a filter, the scores differ
C2_Witness ==
  /\ op.name = "hybridSearch" /\ op.outcome = "ok"
  /\ op.topK = <<2>> /\ op.filter.given
  /\ Len(units) = 3 /\ Len(res) = 2
  /\ res[1].score > res[2].score

AddUnitsThrew == op.name = "addUnits" /\ op.outcome = "throw"
Lacking(batch) == {i \in 1..Len(batch) : ~batch[i].hasEmbedding}
Carrying(batch) == {i \in 1..Len(batch) : batch[i].hasEmbedding}

\* C3: when the embedding collaborator fails during addUnits the call fails,
\* none of the call's units that lacked an embedding has one attached, and
\* none of them is inserted: under each of their ids the index holds what it
\* held before the call.
C3_AllOrNothing ==
  [][AddUnitsThrew' =>
       \A i \in Lacking(op'.batch) :
          /\ ~op'.after[i].hasEmbedding
          /\ op'.after[i] \notin Range(units')
          /\ MapHas(units', op'.batch[i].id) = MapHas(units, op'.batch[i].id)
          /\ MapHas(units, op'.batch[i].id) =>
               MapGet(units', op'.batch[i].id) = MapGet(units, op'.batch[i].id)]_vars

\* a call with two units lacking an embedding has thrown
C3_Witness ==
  /\ AddUnitsThrew
  /\ Cardinality(Lacking(op.batch)) = 2

-----------------------------------------------------------------------------
(* The LLM oracle's replies *)

Yes    == <<"Y","e","s">>
No     == <<"N","o">>
Answer == <<"C","a","f","e">>
Raw    == <<"a","t"," ","C","a","f","e">>

\* replies to the query-analysis request: the request fails, the reply is
\* no JSON, lacks a required field, or conforms to the schema
AnalysisReplies(query) ==
  {[kind |-> k, complexity |-> "LOW", temporal |-> NoTemporal,
    lexical_keywords |-> <<>>, semantic_query |-> query] :
     k \in {"error", "nonJSON", "missingField"}}
  \cup
  {[kind |-> "valid", complexity |-> c, temporal |-> t,
    lexical_keywords |-> kw, semantic_query |-> sq] :
     kw \in {<<Bob>>, <<Q2>>},
     c \in {"LOW", "HIGH"},
     t \in {NoTemporal,
            [given |-> TRUE, start |-> 1, end |-> NoTime],
            [given |-> TRUE, start |-> NoTime, end |-> 6],
            [given |-> TRUE, start |-> 1, end |-> 6]},
     sq \in {query, Q2}}

\* llm/openai.ts completeJSON: throws when the request fails, JSON.parse
\* fails or the schema rejects the value
completeJSONThrows(reply) == reply.kind # "valid"

\* replies to the adequacy request
AdequacyReplies ==
  {[ok |-> FALSE, text |-> NoText], [ok |-> TRUE, text |-> Yes],
   [ok |-> TRUE, text |-> No]}

\* replies to the follow-up request: a failure, text that is no JSON, JSON
\* that is no array, or an array of items, strings or not
Item(text) == [isString |-> TRUE, text |-> text]
NotAString == [isString |-> FALSE, text |-> NoText]

FollowUpReplies ==
  {[kind |-> k, items |-> <<>>] : k \in {"error", "nonJSON", "notArray"}}
  \cup
  {[kind |-> "array", items |-> items] :
     items \in {<<>>, <<NotAString>>, <<Item(Q2)>>, <<NotAString, Item(Q1)>>,
                <<Item(Q2), Item(Q1)>>, <<Item(Q3), Item(Q2), Item(Q1)>>}}

\* replies to the answer requests
AnswerReplies == {[ok |-> FALSE, text |-> NoText], [ok |-> TRUE, text |-> Answer]}
RawReplies == {[ok |-> FALSE, text |-> NoText], [ok |-> TRUE, text |-> Raw]}

-----------------------------------------------------------------------------
(* stages/retrieval.ts: HybridRetriever *)

\* utils/similarity.ts computeDynamicK; complexity and delta in tenths
computeDynamicK_sum(baseK, complexity, delta) ==
  baseK + (delta * complexity) \div 100

computeDynamicK(baseK, complexity, delta) ==
  (baseK * (100 + delta * complexity)) \div 100

\* the fallback's lexicalKeywords taking the words of 3 characters too
fallbackKeywords_atLeast3(query) ==
  SelectSeq(SplitWs(query), LAMBDA w : Len(w) >= 3)

\* query.split(/\s+/).filter((w) => w.length > 3)
fallbackKeywords(query) ==
  SelectSeq(SplitWs(query), LAMBDA w : Len(w) > 3)

\* HybridRetriever.analyzeQuery: the QueryAnalysis returned for a reply
analyzeQuery(query, reply) ==
  IF completeJSONThrows(reply)
  THEN [complexity |-> "LOW", rationale |-> "Default analysis",
        lexicalKeywords |-> fallbackKeywords(query),
        temporal |-> NoTemporal, semanticQuery |-> query, fellBack |-> TRUE]
  ELSE [complexity |-> reply.complexity, rationale |-> "oracle",
        lexicalKeywords |-> reply.lexical_keywords,
        temporal |-> reply.temporal, semanticQuery |-> reply.semantic_query,
        fellBack |-> FALSE]

\* retrieve, Step 1: the filter built from the analysis
filterOf(temporal) ==
  IF temporal.given /\ (temporal.start # NoTime \/ temporal.end # NoTime)
  THEN [NoFilter EXCEPT !.given = TRUE, !.hasRange = TRUE,
                        !.start = temporal.start, !.end = temporal.end]
  ELSE NoFilter

\* retrieve, Step 2: complexityScore in tenths
complexityScore(complexity) == IF complexity = "HIGH" THEN 10 ELSE 0

\* the depth of the searches reflection adds
ReflectionDepth == 3
\* checkAdequacy answers without the oracle from this many units on
EnoughContext == 10

\* reflectionSearch: the loop condition
loopContinues_inclusive(round, maxRounds) == round <= maxRounds
loopContinues(round, maxRounds) == round < maxRounds

\* checkAdequacy taking a failed request for an inadequate context
isAdequate_failureInadequate(reply) ==
  IF ~reply.ok THEN FALSE ELSE Includes(toLowerCase(reply.text), <<"y","e","s">>)

\* checkAdequacy: the answer read from the oracle's reply
isAdequate(reply) ==
  IF ~reply.ok THEN TRUE ELSE Includes(toLowerCase(reply.text), <<"y","e","s">>)

\* additionalQueries keeping every string of the reply
additionalQueries_unsliced(reply) ==
  IF reply.kind # "array" THEN <<>>
  ELSE LET strings == SelectSeq(reply.items, LAMBDA q : q.isString)
       IN  [i \in 1..Len(strings) |-> strings[i].text]

\* generateAdditionalQueries: the queries read from the oracle's reply
additionalQueries(reply) ==
  IF reply.kind # "array" THEN <<>>
  ELSE LET strings == SelectSeq(reply.items, LAMBDA q : q.isString)
       IN  Slice0([i \in 1..Len(strings) |-> strings[i].text], 2)

\* HybridRetriever.estimateTokens
estimateTokens(us) ==
  LET totalChars ==
        SumSeq([i \in 1..Len(us) |->
                  Len(us[i].content) + Len(us[i].location)
                  + Len(Join(us[i].persons, <<" ">>))])
  IN  (totalChars + 3) \div 4

\* every unit of the results appended, seen or not
mergeUnseen_all(allUnits, results) ==
  allUnits \o [i \in 1..Len(results) |-> results[i].unit]

\* the units of the results not yet seen, appended in order
RECURSIVE mergeUnseen(_, _)
mergeUnseen(allUnits, results) ==
  IF results = <<>> THEN allUnits
  ELSE mergeUnseen(
         IF \E i \in 1..Len(allUnits) : allUnits[i].id = Head(results).unit.id
         THEN allUnits ELSE Append(allUnits, Head(results).unit),
         Tail(results))

\* retrieve returns its context
Return(r) ==
  /\ pc' = "idle"
  /\ rt' = r
  /\ out' = [NoOut EXCEPT !.call = "retrieve", !.outcome = "ok",
                          !.units = r.allUnits,
                          !.totalTokens = estimateTokens(r.allUnits),
                          !.rationale = r.rationale]

\* retrieve ends with the error of a search
Throw(r) ==
  /\ pc' = "idle"
  /\ rt' = r
  /\ out' = [NoOut EXCEPT !.call = "retrieve", !.outcome = "throw"]

\* LoopHead asking the oracle however many units are held, unless none is
LoopHead_alwaysAsks(r) ==
  IF ~loopContinues(r.round, config.maxReflectionRounds)
  THEN Return(r) /\ calls' = calls
  ELSE IF Len(r.allUnits) = 0
  THEN /\ pc' = "followUp"
       /\ rt' = r
       /\ calls' = [calls EXCEPT !.complete = @ + 1, !.followUp = @ + 1]
       /\ out' = out
  ELSE /\ pc' = "adequacy"
       /\ rt' = r
       /\ calls' = [calls EXCEPT !.complete = @ + 1, !.adequacy = @ + 1]
       /\ out' = out

\* reflectionSearch from the head of the loop with the locals r: up to the
\* next oracle request, or to the return of retrieve
LoopHead(r) ==
  IF ~loopContinues(r.round, config.maxReflectionRounds)
  THEN Return(r) /\ calls' = calls
  ELSE IF Len(r.allUnits) >= EnoughContext
  THEN Return(r) /\ calls' = calls
  ELSE IF Len(r.allUnits) = 0
  THEN /\ pc' = "followUp"
       /\ rt' = r
       /\ calls' = [calls EXCEPT !.complete = @ + 1, !.followUp = @ + 1]
       /\ out' = out
  ELSE /\ pc' = "adequacy"
       /\ rt' = r
       /\ calls' = [calls EXCEPT !.complete = @ + 1, !.adequacy = @ + 1]
       /\ out' = out

\* retrieve(query) up to its first await
Retrieve(query) ==
  /\ pc = "idle"
  /\ out' = NoOut
  /\ IF config.enablePlanning
     THEN /\ pc' = "analyze"
          /\ rt' = [IdleRt EXCEPT !.query = query]
          /\ calls' = [NoCalls EXCEPT !.completeJSON = 1]
     ELSE /\ pc' = "search"
          /\ rt' = [IdleRt EXCEPT
                      !.query = query,
                      !.dynamicK = computeDynamicK(config.baseK, complexityScore("none"),
                                                   config.complexityDelta_x10),
                      !.searchQuery = query]
          /\ calls' = NoCalls
  /\ gen' = NoGen
  /\ UNCHANGED <<outerVars, flight, units, bm25, needsRebuild, op, res, latest, nOps, config>>

\* Analyze handing the lexical keywords, when there are any, to the search
Analyze_keywordQuery(reply) ==
  /\ pc = "analyze"
  /\ LET analysis == analyzeQuery(rt.query, reply)
     IN  rt' = [rt EXCEPT
                  !.planned = TRUE,
                  !.fellBack = analysis.fellBack,
                  !.complexity = analysis.complexity,
                  !.rationale = analysis.rationale,
                  !.lexicalKeywords = analysis.lexicalKeywords,
                  !.temporal = analysis.temporal,
                  !.semanticQuery = analysis.semanticQuery,
                  !.filter = filterOf(analysis.temporal),
                  !.dynamicK = computeDynamicK(config.baseK,
                                               complexityScore(analysis.complexity),
                                               config.complexityDelta_x10),
                  !.searchQuery = IF analysis.lexicalKeywords = <<>>
                                  THEN analysis.semanticQuery
                                  ELSE Join(analysis.lexicalKeywords, <<" ">>)]
  /\ pc' = "search"
  /\ UNCHANGED <<outerVars, flight, units, bm25, needsRebuild, op, res, latest, nOps, config, gen, calls, out>>

\* the analysis request ends: Steps 1 and 2 of retrieve
Analyze(reply) ==
  /\ pc = "analyze"
  /\ LET analysis == analyzeQuery(rt.query, reply)
     IN  rt' = [rt EXCEPT
                  !.planned = TRUE,
                  !.fellBack = analysis.fellBack,
                  !.complexity = analysis.complexity,
                  !.rationale = analysis.rationale,
                  !.lexicalKeywords = analysis.lexicalKeywords,
                  !.temporal = analysis.temporal,
                  !.semanticQuery = analysis.semanticQuery,
                  !.filter = filterOf(analysis.temporal),
                  !.dynamicK = computeDynamicK(config.baseK,
                                               complexityScore(analysis.complexity),
                                               config.complexityDelta_x10),
                  !.searchQuery = analysis.semanticQuery]
  /\ pc' = "search"
  /\ UNCHANGED <<outerVars, flight, units, bm25, needsRebuild, op, res, latest, nOps, config, gen, calls, out>>

\* Searched entering the loop whenever reflection is enabled
Searched_anyComplexity(found) ==
  /\ bm25' = found.bm25
  /\ needsRebuild' = FALSE
  /\ \E r \in {[rt EXCEPT
                  !.firstDepth = <<rt.dynamicK>>,
                  !.firstQuery = rt.searchQuery,
                  !.firstFilter = rt.filter,
                  !.allUnits = [i \in 1..Len(found.results) |-> found.results[i].unit]]} :
       IF found.threw THEN Throw(r) /\ calls' = calls
       ELSE IF config.enableReflection
       THEN LoopHead(r)
       ELSE Return(r) /\ calls' = calls

\* Step 3 has returned found; Step 4 up to the next await
Searched(found) ==
  /\ bm25' = found.bm25
  /\ needsRebuild' = FALSE
  /\ \E r \in {[rt EXCEPT
                  !.firstDepth = <<rt.dynamicK>>,
                  !.firstQuery = rt.searchQuery,
                  !.firstFilter = rt.filter,
                  !.allUnits = [i \in 1..Len(found.results) |-> found.results[i].unit]]} :
       IF found.threw THEN Throw(r) /\ calls' = calls
       ELSE IF config.enableReflection /\ rt.complexity = "HIGH"
       THEN LoopHead(r)
       ELSE Return(r) /\ calls' = calls

\* Step 3, the first hybridSearch, then Step 4 up to the next await
Search(providerOk) ==
  /\ pc = "search"
  /\ \E found \in {hybridSearch(units, bm25, needsRebuild, rt.searchQuery, rt.filter,
                                <<rt.dynamicK>>, providerOk)} :
       Searched(found)
  /\ UNCHANGED <<outerVars, flight, units, op, res, latest, nOps, config, gen>>

\* the adequacy request ends
Adequacy(reply) ==
  /\ pc = "adequacy"
  /\ IF isAdequate(reply)
     THEN Return(rt) /\ calls' = [calls EXCEPT !.caught = IF reply.ok THEN @ ELSE @ + 1]
     ELSE /\ pc' = "followUp"
          /\ calls' = [calls EXCEPT !.complete = @ + 1, !.followUp = @ + 1,
                                    !.caught = IF reply.ok THEN @ ELSE @ + 1]
          /\ UNCHANGED <<rt, out>>
  /\ UNCHANGED <<outerVars, flight, units, bm25, needsRebuild, op, res, latest, nOps, config, gen>>

\* the follow-up request ends
FollowUp(reply) ==
  /\ pc = "followUp"
  /\ LET queries == additionalQueries(reply)
     IN  IF Len(queries) = 0
         THEN Return(rt)
         ELSE /\ pc' = "extra"
              /\ rt' = [rt EXCEPT !.pending = queries]
              /\ out' = out
  /\ calls' = [calls EXCEPT !.caught = IF reply.kind \in {"error", "nonJSON"}
                                       THEN @ + 1 ELSE @]
  /\ UNCHANGED <<outerVars, flight, units, bm25, needsRebuild, op, res, latest, nOps, config, gen>>

\* ExtraSearched going back to the head of the loop without counting the round
ExtraSearched_sameRound(found) ==
  /\ bm25' = found.bm25
  /\ needsRebuild' = FALSE
  /\ \E r \in {[rt EXCEPT !.allUnits = mergeUnseen(rt.allUnits, found.results),
                          !.pending = Tail(rt.pending)]} :
       IF found.threw THEN Throw(rt) /\ calls' = calls
       ELSE IF r.pending # <<>>
       THEN pc' = "extra" /\ rt' = r /\ UNCHANGED <<calls, out>>
       ELSE /\ pc' = IF Len(r.allUnits) = 0 THEN "followUp" ELSE "adequacy"
            /\ rt' = r
            /\ UNCHANGED <<calls, out>>

\* an additional hybridSearch has returned found; on to the next await
ExtraSearched(found) ==
  /\ bm25' = found.bm25
  /\ needsRebuild' = FALSE
  /\ \E r \in {[rt EXCEPT !.allUnits = mergeUnseen(rt.allUnits, found.results),
                          !.pending = Tail(rt.pending)]} :
       IF found.threw THEN Throw(rt) /\ calls' = calls
       ELSE IF r.pending # <<>>
       THEN pc' = "extra" /\ rt' = r /\ UNCHANGED <<calls, out>>
       ELSE LoopHead([r EXCEPT !.round = rt.round + 1])

\* one additional hybridSearch of the round, then on to the next await
ExtraSearch(providerOk) ==
  /\ pc = "extra"
  /\ \E found \in {hybridSearch(units, bm25, needsRebuild, Head(rt.pending), NoFilter,
                                <<ReflectionDepth>>, providerOk)} :
       ExtraSearched(found)
  /\ UNCHANGED <<outerVars, flight, units, op, res, latest, nOps, config, gen>>

-----------------------------------------------------------------------------
(* stages/retrieval.ts: AnswerGenerator *)

\* "I do not have enough information in my memory to answer this question."
InsufficientInfo ==
  <<"I"," ","d","o"," ","n","o","t"," ","h","a","v","e"," ","e","n","o","u",
  "g","h"," ","i","n","f","o","r","m","a","t","i","o","n"," ","i","n"," ",
  "m","y"," ","m","e","m","o","r","y"," ","t","o"," ","a","n","s","w","e",
  "r"," ","t","h","i","s"," ","q","u","e","s","t","i","o","n",".">>

\* formatContext and buildPrompt: the prompt is determined by the query and
\* the units of the context
buildPrompt(query, us) == [query |-> query, context |-> us]

\* generate: whether it returns before any oracle request
returnsEarly_never(us) == FALSE
returnsEarly(us) == Len(us) = 0

\* the contexts generate is called with
Contexts == {<<>>, <<U3>>, <<U1b, U3>>}

\* generate(query, context) up to its first await
Generate(query, us) ==
  /\ pc = "idle"
  /\ gen' = [NoGen EXCEPT !.query = query, !.units = us,
               !.promptJSON = IF returnsEarly(us) THEN <<>>
                              ELSE <<buildPrompt(query, us)>>]
  /\ IF returnsEarly(us)
     THEN /\ pc' = "idle"
          /\ calls' = NoCalls
          /\ out' = [NoOut EXCEPT !.call = "generate", !.outcome = "ok",
                                  !.text = InsufficientInfo]
     ELSE /\ pc' = "genJSON"
          /\ calls' = [NoCalls EXCEPT !.completeJSON = 1]
          /\ out' = NoOut
  /\ rt' = IdleRt
  /\ UNCHANGED <<outerVars, flight, units, bm25, needsRebuild, op, res, latest, nOps, config>>

\* the structured answer request ends
GenJSON(reply) ==
  /\ pc = "genJSON"
  /\ IF reply.ok
     THEN /\ pc' = "idle"
          /\ out' = [NoOut EXCEPT !.call = "generate", !.outcome = "ok",
                                  !.text = reply.text]
          /\ UNCHANGED <<gen, calls>>
     ELSE /\ pc' = "genText"
          /\ gen' = [gen EXCEPT !.promptText = gen.promptJSON]
          /\ calls' = [calls EXCEPT !.complete = @ + 1]
          /\ out' = out
  /\ UNCHANGED <<outerVars, flight, units, bm25, needsRebuild, op, res, latest, nOps, config, rt>>

\* the fallback completion ends
GenText(reply) ==
  /\ pc = "genText"
  /\ pc' = "idle"
  /\ out' = IF reply.ok
            THEN [NoOut EXCEPT !.call = "generate", !.outcome = "ok",
                               !.text = reply.text]
            ELSE [NoOut EXCEPT !.call = "generate", !.outcome = "throw"]
  /\ UNCHANGED <<outerVars, flight, units, bm25, needsRebuild, op, res, latest, nOps, config, rt, gen, calls>>

-----------------------------------------------------------------------------
(* The retriever and the generator over a loaded index *)

\* the batches the index was loaded with
Loads == {<<>>, <<U1a>>, <<U1b, U2>>, <<U1a, U2, U3>>}

\* a batch of sixteen units: nine about Sara's job, three about Bob's report
\* and four about Al meeting Bob; enough for checkAdequacy to answer without
\* the oracle and for a round of reflection to find six new units
CrowdIds ==
  <<"c0", "c1", "c2", "c3", "c4", "c5", "c6", "c7", "c8", "c9",
    "c10", "c11", "c12", "c13", "c14", "c15">>
Crowd ==
  [i \in 1..CrowdSize |->
     IF i <= 9 THEN MkUnit(CrowdIds[i], T_c, TRUE, <<0, 1>>, 9, NoText)
     ELSE IF i <= 12 THEN MkUnit(CrowdIds[i], T_b, TRUE, <<1, 0>>, NoTime, Lab)
     ELSE MkUnit(CrowdIds[i], T_a1, TRUE, <<3, 4>>, 5, NoText)]

\* the batches the index a retriever works on was loaded with
RetrieverLoads == Loads \cup {Crowd}

Configs ==
  {[DefaultConfig EXCEPT !.maxReflectionRounds = r] : r \in 0..MaxRounds}
  \cup
  {[DefaultConfig EXCEPT !.baseK = 1, !.complexityDelta_x10 = 5,
                         !.maxReflectionRounds = MaxRounds],
   [DefaultConfig EXCEPT !.enablePlanning = FALSE],
   [DefaultConfig EXCEPT !.enableReflection = FALSE]}

\* a new index after one addUnits call, and a retriever over it
InitRetrieve ==
  /\ \E load \in RetrieverLoads :
       /\ units = addUnits(<<>>, load, TRUE).units
       /\ needsRebuild = (load # <<>>)
  /\ bm25 = NewBM25
  /\ op = NoOp
  /\ res = <<>>
  /\ latest = [id \in UnitIds |-> IF MapHas(units, id) THEN MapGet(units, id).content
                                  ELSE NoText]
  /\ nOps = 0
  /\ config \in Configs
  /\ pc = "idle"
  /\ rt = IdleRt
  /\ gen = NoGen
  /\ calls = NoCalls
  /\ out = NoOut
  /\ flight = NoFlight
  /\ OuterAtRest

NextRetrieve ==
  \/ \E query \in Queries : Retrieve(query)
  \/ \E reply \in AnalysisReplies(rt.query) : Analyze(reply)
  \/ \E providerOk \in BOOLEAN : Search(providerOk)
  \/ \E reply \in AdequacyReplies : Adequacy(reply)
  \/ \E reply \in FollowUpReplies : FollowUp(reply)
  \/ \E providerOk \in BOOLEAN : ExtraSearch(providerOk)
  \/ \E query \in Queries, us \in Contexts : Generate(query, us)
  \/ \E reply \in AnswerReplies : GenJSON(reply)
  \/ \E reply \in RawReplies : GenText(reply)

SpecRetrieve == InitRetrieve /\ [][NextRetrieve]_vars

\* every request a running call awaits settles, answered or failed, and the
\* call goes on.  For the oracle requests that is weak fairness of the step
\* that takes the reply.  Search and ExtraSearch are enabled exactly at
\* pc = "search" and pc = "extra", and each of their steps leaves that
\* position or shortens rt.pending, so their weak fairness is the condition
\* that retrieve is not at a search forever.
SpecRetrieveFair ==
  /\ SpecRetrieve
  /\ WF_vars(\E reply \in AnalysisReplies(rt.query) : Analyze(reply))
  /\ WF_vars(\E reply \in AdequacyReplies : Adequacy(reply))
  /\ WF_vars(\E reply \in FollowUpReplies : FollowUp(reply))
  /\ WF_vars(\E reply \in AnswerReplies : GenJSON(reply))
  /\ WF_vars(\E reply \in RawReplies : GenText(reply))
  /\ []<>(pc \notin {"search", "extra"})

-----------------------------------------------------------------------------
(* Claims about retrieve and generate *)

\* C5: for every behaviour of the oracle and of the embedding provider,
\* retrieve completes by returning a RetrievalContext; it never ends by
\* propagating an error to the caller.
C5_Original ==
  out.call = "retrieve" => out.outcome = "ok"

\* the words longer than 3 characters of the queries, read off the texts
WordsLongerThan3(query) ==
  CASE query = Q1 -> << <<"w","h","e","r","e">>, <<"m","e","e","t">> >>
    [] query = Q2 -> << <<"r","e","p","o","r","t">> >>
    [] query = Q3 -> << <<"C","a","f","e">>, <<"j","o","b","?">> >>

\* C6: when planning is enabled and the query-analysis request fails or its
\* reply is malformed, retrieve goes on to its search: with complexity LOW,
\* the original query as semantic query, the query's words longer than 3
\* characters as lexical keywords, no filter, depth baseK, and without any
\* reflection request.
C6_FallbackAnalysis ==
  rt.fellBack =>
    /\ config.enablePlanning
    /\ rt.complexity = "LOW"
    /\ rt.semanticQuery = rt.query
    /\ rt.lexicalKeywords = WordsLongerThan3(rt.query)
    /\ rt.filter = NoFilter
    /\ rt.dynamicK = config.baseK
    /\ pc \in {"search", "idle"}
    /\ pc = "idle" =>
         /\ out.call = "retrieve"
         /\ rt.firstQuery = rt.query
         /\ rt.firstFilter = NoFilter
         /\ rt.firstDepth = <<config.baseK>>
    /\ calls.adequacy = 0 /\ calls.followUp = 0 /\ calls.complete = 0

\* a retrieve whose analysis fell back has returned units
C6_Witness ==
  /\ rt.fellBack
  /\ rt.query = Q3
  /\ out.call = "retrieve" /\ out.outcome = "ok"
  /\ Len(out.units) = 3

\* C7: for a context with at least one unit generate always returns a
\* string; when the structured request fails the unstructured completion of
\* the same prompt is returned, and no oracle error leaves generate.
C7_Original ==
  (out.call = "generate" /\ gen.units # <<>>) =>
    /\ out.outcome = "ok"
    /\ out.text \in {Answer, Raw}
    /\ calls.complete = 1 => gen.promptText = gen.promptJSON

\* C8: generate called with an empty units list returns the fixed
\* insufficient-information message and issues no oracle request, neither
\* completeJSON nor complete, whatever the query.
C8_EmptyContext ==
  (gen.query # NoText /\ gen.units = <<>>) =>
    /\ pc = "idle"
    /\ out.call = "generate" /\ out.outcome = "ok"
    /\ out.text = InsufficientInfo
    /\ calls.completeJSON = 0 /\ calls.complete = 0

\* generate has returned for an empty context
C8_Witness ==
  /\ gen.query = Q1 /\ gen.units = <<>>
  /\ out.call = "generate"

\* the oracle requests reflection has issued in the running or last retrieve
ReflectionCalls == calls.adequacy + calls.followUp

\* C9 as stated: within one retrieve the reflection loop issues at most
\* maxReflectionRounds oracle requests, adequacy checks and follow-up
\* proposals taken together.
C9_Original ==
  rt.query # NoText => ReflectionCalls <= config.maxReflectionRounds

\* C9: within one retrieve the reflection loop runs at most
\* maxReflectionRounds rounds; it issues at most maxReflectionRounds adequacy
\* requests and at most maxReflectionRounds follow-up requests, hence at most
\* twice maxReflectionRounds oracle requests.
C9_RoundsBounded ==
  rt.query # NoText =>
    /\ rt.round <= config.maxReflectionRounds
    /\ calls.adequacy <= config.maxReflectionRounds
    /\ calls.followUp <= config.maxReflectionRounds
    /\ calls.complete = ReflectionCalls
    /\ ReflectionCalls <= 2 * config.maxReflectionRounds

\* every round of a retrieve has asked the oracle twice
C9_Witness ==
  /\ config.maxReflectionRounds = MaxRounds
  /\ out.call = "retrieve" /\ out.outcome = "ok"
  /\ rt.round = MaxRounds
  /\ calls.adequacy = MaxRounds /\ calls.followUp = MaxRounds

\* C10: the first hybridSearch of retrieve has depth
\* floor(baseK * (1 + complexityDelta * c)), c = 1 when the analysed
\* complexity is HIGH and 0 otherwise; with the default configuration that
\* is 3 for LOW and 9 for HIGH, computeDynamicK(3, 0, 2) = 3 and
\* computeDynamicK(3, 1, 2) = 9.
C10_FirstDepth ==
  /\ computeDynamicK(3, 0, 20) = 3
  /\ computeDynamicK(3, 10, 20) = 9
  /\ rt.firstDepth # <<>> =>
       LET c == IF rt.planned /\ rt.complexity = "HIGH" THEN 1 ELSE 0
           k == rt.firstDepth[1]
           x10 == config.baseK * (10 + config.complexityDelta_x10 * c)
       IN  /\ 10 * k <= x10 /\ x10 < 10 * (k + 1)
           /\ (config.baseK = 3 /\ config.complexityDelta_x10 = 20) =>
                k = IF c = 1 THEN 9 ELSE 3

\* a first search of a HIGH query under the default depth settings
C10_Witness ==
  /\ rt.complexity = "HIGH"
  /\ config.baseK = 3 /\ config.complexityDelta_x10 = 20
  /\ rt.firstDepth = <<9>>

-----------------------------------------------------------------------------
(* The search layers over a loaded index *)

\* u3 carrying an embedding of another dimension than the provider's
U3x == MkUnit("u3", T_c, TRUE, <<2, 1, 2>>, 9, NoText)

\* the batches the index was loaded with
LayerLoads ==
  {<<>>, <<U2>>, <<U1a, U2, U3>>, <<U1b, U2, U3>>, <<U2, U3, U1b>>, <<U1a, U3x>>}

\* the provider's reply to a load: one vector per text, or one vector fewer,
\* which leaves the last unit that needed an embedding without one
LoadReplies(load) ==
  LET vectors == embed(textsOf(load), TRUE).vectors
  IN  {vectors} \cup (IF vectors = <<>> THEN {}
                      ELSE {SubSeq(vectors, 1, Len(vectors) - 1)})

Cafe == <<"c","a","f","e">>
Job  == <<"j","o","b">>

LocationFilter(location) == [NoFilter EXCEPT !.given = TRUE, !.location = location]
TopicFilter(topic) == [NoFilter EXCEPT !.given = TRUE, !.topic = topic]

\* the filters handed to the searches: none, ranges with the stored
\* timestamps inside, on a bound and outside, a range without an end, a
\* location, a topic
LayerFilters ==
  {NoFilter, RangeFilter(1, 6), RangeFilter(5, 9), RangeFilter(6, 8),
   RangeFilter(1, NoTime), LocationFilter(Lab), LocationFilter(Cafe),
   TopicFilter(Job)}

\* the batches handed to addUnits on the loaded index: units without
\* embedding and units carrying one, the provider's or another
LayerBatches ==
  {b \in SeqsOf({U1a, U1b, U3x}, 0, MaxBatch) :
     \A i, j \in 1..Len(b) : b[i] = b[j] => i = j}

\* a new index after one addUnits call, about to serve one call
InitLayers ==
  /\ \E load \in LayerLoads :
       \E vectors \in LoadReplies(load) :
          units = addUnitsGot(<<>>, load, vectors).units
  /\ bm25 = NewBM25
  /\ needsRebuild = TRUE
  /\ op = NoOp
  /\ res = <<>>
  /\ latest = [id \in UnitIds |-> IF MapHas(units, id) THEN MapGet(units, id).content
                                  ELSE NoText]
  /\ nOps = MaxOps - 1
  /\ RetrieverAtRest
  /\ OuterAtRest

NextLayers ==
  \/ \E batch \in LayerBatches :
       \E providerOk \in IF NeedsEmbedding(batch) THEN BOOLEAN ELSE {TRUE} :
          AddUnits(batch, providerOk)
  \/ \E query \in Queries, topKArg \in TopKArgs, providerOk \in BOOLEAN :
       SemanticSearch(query, topKArg, providerOk)
  \/ \E query \in Queries, topKArg \in TopKArgs : KeywordSearch(query, topKArg)
  \/ \E filter \in LayerFilters, topKArg \in TopKArgs : StructuredSearch(filter, topKArg)
  \/ \E query \in Queries, filter \in LayerFilters, topKArg \in TopKArgs,
        providerOk \in BOOLEAN :
       HybridSearch(query, filter, topKArg, providerOk)

SpecLayers == InitLayers /\ [][NextLayers]_vars

-----------------------------------------------------------------------------
(* Claims about the filters and the search layers *)

\* the last call was a successful search of this name
Searched_ok(name) == op.name = name /\ op.outcome = "ok"

\* the filter of the last call sets timestampRange with start and end
BothBounds(filter) ==
  filter.hasRange /\ filter.start # NoTime /\ filter.end # NoTime

\* the two layers' results the last hybridSearch merged
LayerSemantic == semanticSearch(units, op.query, DepthOf(op.topK) * 2, TRUE).results
LayerKeyword ==
  keywordSearch(units, bm25, needsRebuild, op.query, DepthOf(op.topK) * 2).results

\* the score the last hybridSearch gives a result when no bonus is added
ScoreWithoutBonus(r) ==
  LET scored == hybridScored(units, LayerSemantic, LayerKeyword, op.filter, 0)
  IN  scored[CHOOSE i \in 1..Len(scored) : scored[i].unit.id = r.unit.id].score

\* C11: a unit with no timestamp never satisfies a filter whose
\* timestampRange has start and end: structuredSearch with such a filter
\* never returns it and hybridSearch gives it no symbolic bonus, while
\* filters without a timestampRange still match it.
C11_Original ==
  /\ (Searched_ok("structuredSearch") /\ BothBounds(op.filter)) =>
       \A i \in 1..Len(res) : res[i].unit.timestamp # NoTime
  /\ (Searched_ok("hybridSearch") /\ BothBounds(op.filter)) =>
       \A i \in 1..Len(res) :
          res[i].unit.timestamp = NoTime => res[i].score = ScoreWithoutBonus(res[i])

\* C12: a unit whose location (topic) is absent does not match a filter that
\* sets location (topic): structuredSearch with such a filter never returns
\* that unit.
C12_Original ==
  Searched_ok("structuredSearch") =>
    /\ op.filter.location # NoText =>
         \A i \in 1..Len(res) : res[i].unit.location # NoText
    /\ op.filter.topic # NoText =>
         \A i \in 1..Len(res) : res[i].unit.topic # NoText

\* the units of the last search's results
ResUnits == {res[i].unit : i \in 1..Len(res)}

\* C13: for a unit that has a timestamp and a filter whose timestampRange
\* has start and end, the unit satisfies the range predicate exactly when
\* start <= timestamp <= end, both bounds included: structuredSearch with
\* room for every unit returns it exactly then, and hybridSearch adds the
\* symbolic bonus to it exactly then.
C13_InclusiveRange ==
  /\ (/\ Searched_ok("structuredSearch") /\ BothBounds(op.filter)
      /\ DepthOr(op.topK, StructuredTopK) >= Len(units)) =>
       \A i \in 1..Len(units) :
          units[i].timestamp # NoTime =>
            (units[i] \in ResUnits <=>
               (op.filter.start <= units[i].timestamp
                /\ units[i].timestamp <= op.filter.end))
  /\ (Searched_ok("hybridSearch") /\ BothBounds(op.filter)) =>
       \A i \in 1..Len(res) :
          res[i].unit.timestamp # NoTime =>
            res[i].score - ScoreWithoutBonus(res[i]) =
              IF op.filter.start <= res[i].unit.timestamp
                 /\ res[i].unit.timestamp <= op.filter.end
              THEN SymbolicWeight_x10 * 1000 ELSE 0

\* a structured search whose range starts at one stored timestamp and ends at
\* another has returned both units
C13_Witness ==
  /\ Searched_ok("structuredSearch")
  /\ op.filter = RangeFilter(5, 9)
  /\ \E i, j \in 1..Len(res) :
       res[i].unit.timestamp = 5 /\ res[j].unit.timestamp = 9

\* a unit, and the units of an index, with the embeddings taken away
WithoutEmbedding(u) == [u EXCEPT !.hasEmbedding = FALSE, !.embedding = <<>>]
AllWithoutEmbedding(m) == [i \in 1..Len(m) |-> WithoutEmbedding(m[i])]
UnitsWithoutEmbedding(results) ==
  [i \in 1..Len(results) |-> WithoutEmbedding(results[i].unit)]

\* some stored embedding differs in length from the embedding of the query
StoredMismatch(query) ==
  \E i \in 1..Len(units) :
     /\ units[i].hasEmbedding
     /\ Len(units[i].embedding) # Len(Embedding(query))

\* C14: a unit stored without an embedding never appears in the output of
\* semanticSearch and does not make it fail (with the provider answering,
\* semanticSearch throws only on a stored embedding of another length), while
\* keywordSearch and structuredSearch return what they return when no unit
\* has an embedding, and hybridSearch with room for every unit returns each
\* unit without embedding that the lexical layer found.
C14_NoEmbedding ==
  /\ [](/\ Searched_ok("semanticSearch") =>
             \A i \in 1..Len(res) : res[i].unit.hasEmbedding
        /\ Searched_ok("keywordSearch") =>
             UnitsWithoutEmbedding(res) =
               UnitsWithoutEmbedding(
                 keywordSearch(AllWithoutEmbedding(units), NewBM25, TRUE, op.query,
                               DepthOr(op.topK, KeywordTopK)).results)
        /\ Searched_ok("structuredSearch") =>
             UnitsWithoutEmbedding(res) =
               UnitsWithoutEmbedding(
                 structuredSearch(AllWithoutEmbedding(units), op.filter,
                                  DepthOr(op.topK, StructuredTopK)))
        /\ (Searched_ok("hybridSearch") /\ DepthOf(op.topK) >= Len(units)) =>
             \A i \in 1..Len(LayerKeyword) :
                ~LayerKeyword[i].unit.hasEmbedding =>
                  LayerKeyword[i].unit \in ResUnits)
  /\ [][\A query \in Queries, topKArg \in TopKArgs :
          /\ SemanticSearch(query, topKArg, TRUE) =>
               (op'.outcome = "throw" <=> StoredMismatch(query))
          /\ \A filter \in LayerFilters :
               HybridSearch(query, filter, topKArg, TRUE) =>
                 (op'.outcome = "throw" <=> StoredMismatch(query))]_vars

\* a hybrid search over units with and without embeddings has returned a unit
\* that has none
C14_Witness ==
  /\ Searched_ok("hybridSearch")
  /\ \E i \in 1..Len(units) : units[i].hasEmbedding
  /\ \E i \in 1..Len(res) : ~res[i].unit.hasEmbedding

\* the ids of the units in a result list
LayerIds(results) == {results[i].unit.id : i \in 1..Len(results)}

\* the score a layer gave the unit of this id, 0 when the layer missed it;
\* the lexical score is divided by the layer's highest score (at least 1)
SemanticAxis(id) ==
  IF id \in LayerIds(LayerSemantic)
  THEN LayerSemantic[CHOOSE i \in 1..Len(LayerSemantic) :
                       LayerSemantic[i].unit.id = id].score
  ELSE 0
LexicalAxis(id) ==
  IF id \in LayerIds(LayerKeyword)
  THEN (LayerKeyword[CHOOSE i \in 1..Len(LayerKeyword) :
                       LayerKeyword[i].unit.id = id].score * 1000)
         \div MaxOf([i \in 1..Len(LayerKeyword) |-> LayerKeyword[i].score], 1000)
  ELSE 0

\* C15: the candidate set of hybridSearch is the union of the unit ids
\* returned by the semantic layer and by the lexical layer, each queried for
\* 2 * topK candidates: every result is in the union, with room for all of
\* them the results are the whole union, and each result is scored with 0 on
\* the axis of a layer that missed it.
C15_CandidatesAreUnion ==
  Searched_ok("hybridSearch") =>
    LET candidates == LayerIds(LayerSemantic) \cup LayerIds(LayerKeyword)
    IN  /\ LayerIds(res) \subseteq candidates
        /\ Len(res) = Min(DepthOf(op.topK), Cardinality(candidates))
        /\ \A i \in 1..Len(res) :
              res[i].score =
                computeHybridScore(SemanticAxis(res[i].unit.id),
                                   LexicalAxis(res[i].unit.id),
                                   matchesConstraints(res[i].unit, op.filter),
                                   SemanticWeight_x10, LexicalWeight_x10,
                                   SymbolicWeight_x10)

\* a hybrid search has returned a unit only the semantic layer found and a
\* unit only the lexical layer found
C15_Witness ==
  /\ Searched_ok("hybridSearch")
  /\ \E i, j \in 1..Len(res) :
       /\ res[i].unit.id \in LayerIds(LayerSemantic) \ LayerIds(LayerKeyword)
       /\ res[j].unit.id \in LayerIds(LayerKeyword) \ LayerIds(LayerSemantic)

\* the results of the last hybridSearch had symbolicWeight been 0
RankedWithoutBonus ==
  Slice0(SortDesc(hybridScored(units, LayerSemantic, LayerKeyword, op.filter, 0)),
         DepthOf(op.topK))

\* C16: when hybridSearch is called without a filter, the symbolic bonus is
\* added to every candidate equally: the returned units and their order are
\* the same as with symbolicWeight = 0, and every returned score is larger by
\* exactly symbolicWeight.
C16_UniformBonus ==
  (Searched_ok("hybridSearch") /\ ~op.filter.given) =>
    /\ Len(res) = Len(RankedWithoutBonus)
    /\ \A i \in 1..Len(res) :
          /\ res[i].unit = RankedWithoutBonus[i].unit
          /\ res[i].score = RankedWithoutBonus[i].score + SymbolicWeight_x10 * 1000

\* a hybrid search without a filter has ranked two units of different scores
C16_Witness ==
  /\ Searched_ok("hybridSearch")
  /\ ~op.filter.given
  /\ Len(res) >= 2
  /\ res[1].score > res[2].score

-----------------------------------------------------------------------------
(* Claims about the BM25 scorer and the lexical layer *)

\* the contents of the stored units, in the order of the map
Contents == [i \in 1..Len(units) |-> units[i].content]

\* the terms of the stored units' contents
CurrentTerms == UNION {Range(tokenize(Contents[i])) : i \in 1..Len(Contents)}

\* C17: addDocuments fully replaces prior state: whatever documents the
\* scorer was given before (D1), after addDocuments(D2) score and topK of
\* every query equal those of a fresh scorer given only addDocuments(D2);
\* D2 is the contents of the stored units, D1 the scorer's history.
C17_AddDocumentsReplaces ==
  LET again == addDocuments(bm25, Contents)
      fresh == addDocuments(NewBM25, Contents)
  IN  /\ again.documents = fresh.documents
      /\ again.avgNum = fresh.avgNum /\ again.avgDen = fresh.avgDen
      /\ \A query \in Queries :
            /\ score(again, query) = score(fresh, query)
            /\ \A k \in 0..MaxDocs : topK(again, query, k) = topK(fresh, query, k)
      /\ ~needsRebuild =>
            \A query \in Queries : score(bm25, query) = score(fresh, query)

\* a scorer that indexed documents with a term no stored unit has any more
\* is about to index the stored units
C17_Witness ==
  /\ bm25.documents # <<>>
  /\ units # <<>>
  /\ needsRebuild
  /\ \E t \in DOMAIN bm25.idf : t \notin CurrentTerms
  /\ \E query \in Queries : \E i \in 1..Len(units) :
        score(addDocuments(bm25, Contents), query)[i] > 0

\* the terms the scorer's documents hold, and the number of documents a
\* term is found in
IndexedTerms == UNION {Range(bm25.documents[i]) : i \in 1..Len(bm25.documents)}
DocFreq(t) ==
  Cardinality({i \in 1..Len(bm25.documents) : t \in Range(bm25.documents[i])})

\* the terms of the queries
QueryTerms == UNION {Range(tokenize(query)) : query \in Queries}

C19_KeywordResultsCurrent ==
  Searched_ok("keywordSearch") =>
    /\ Len(bm25.documents) = Len(units)
    /\ \A j \in 1..Len(units) : bm25.documents[j] = tokenize(units[j].content)
    /\ \A i \in 1..Len(res) :
          /\ res[i].unit # UndefinedUnit
          /\ \E j \in 1..Len(units) :
                /\ res[i].unit = units[j]
                /\ res[i].unit.content = latest[res[i].unit.id]
                /\ res[i].score =
                     score(addDocuments(NewBM25, Contents), op.query)[j]
                /\ res[i].score > 0

\* a keyword search after a change of the index has returned a unit that is
\* not the first of the map
C19_Witness ==
  /\ Searched_ok("keywordSearch")
  /\ \E i \in 1..Len(res) : \E j \in 2..Len(units) : res[i].unit = units[j]

-----------------------------------------------------------------------------
(* Claims about cosineSimilarity in the search layers *)

\* a vector of magnitude 0
ZeroMagnitude(v) == \A i \in 1..Len(v) : v[i] = 0

\* C20: cosineSimilarity fails with a dimension-mismatch error whenever its
\* two vectors differ in length, and the error propagates to the caller of
\* semanticSearch and of hybridSearch when a stored unit's embedding length
\* differs from the query embedding's length; a zero-magnitude vector of the
\* same length yields the score 0 and no error.
C20_DimensionMismatch ==
  /\ [](Searched_ok("semanticSearch") =>
          \A i \in 1..Len(res) :
             /\ Len(res[i].unit.embedding) = Len(Embedding(op.query))
             /\ (ZeroMagnitude(Embedding(op.query))
                 \/ ZeroMagnitude(res[i].unit.embedding)) => res[i].score = 0)
  /\ [](\A i \in 1..Len(units) : \A query \in Queries :
          (/\ units[i].hasEmbedding
           /\ Len(Embedding(query)) = Len(units[i].embedding)
           /\ ZeroMagnitude(Embedding(query))) =>
            cosineSimilarity(Embedding(query), units[i].embedding) = 0)
  /\ [][\A query \in Queries, topKArg \in TopKArgs, providerOk \in BOOLEAN :
          StoredMismatch(query) =>
            /\ SemanticSearch(query, topKArg, providerOk) =>
                 (op'.outcome = "throw" /\ res' = <<>>)
            /\ \A filter \in LayerFilters :
                 HybridSearch(query, filter, topKArg, providerOk) =>
                   (op'.outcome = "throw" /\ res' = <<>>)]_vars

\* a hybrid search has thrown over a stored embedding of another length than
\* the query's
C20_Witness ==
  /\ op.name = "hybridSearch"
  /\ op.outcome = "throw"
  /\ \E i \in 1..Len(units) :
        /\ units[i].hasEmbedding
        /\ Len(units[i].embedding) = 3
        /\ Len(Embedding(op.query)) = 2

-----------------------------------------------------------------------------
(* Claims about what the index changes *)

\* the unit of the batch that is stored under this id: the last one
LastOf(batch, id) ==
  batch[CHOOSE i \in 1..Len(batch) :
          /\ batch[i].id = id
          /\ \A j \in 1..Len(batch) : batch[j].id = id => j <= i]

\* what an addUnits(batch) that returns may change: a unit stored under an id of the batch
\* is the batch's unit, at most with an embedding attached where it had
\* none; every other stored unit stays as it was
AddUnitsFrame(batch) ==
  /\ \A j \in 1..Len(units') :
        IF \E i \in 1..Len(batch) : batch[i].id = units'[j].id
        THEN LET given == LastOf(batch, units'[j].id)
             IN  /\ WithoutEmbedding(units'[j]) = WithoutEmbedding(given)
                 /\ given.hasEmbedding => units'[j] = given
        ELSE units'[j] \in Range(units)
  /\ \A i \in 1..Len(units) :
        units[i] \in Range(units')
        \/ \E k \in 1..Len(batch) : batch[k].id = units[i].id

\* C21: no HybridIndex operation changes a field of a stored unit other
\* than attaching an embedding to a unit that had none: addUnits leaves id,
\* content and metadata of every unit, and any existing embedding, unchanged,
\* and semanticSearch, keywordSearch, structuredSearch and hybridSearch
\* leave the units map as it was.
C21_UnitsFrame ==
  [][/\ \A batch \in LayerBatches, providerOk \in BOOLEAN :
          AddUnits(batch, providerOk) =>
            IF op'.outcome = "throw" THEN units' = units ELSE AddUnitsFrame(batch)
     /\ op'.name \in {"semanticSearch", "keywordSearch", "structuredSearch",
                      "hybridSearch"} => units' = units]_vars

\* addUnits on an index without u1 and u3 has stored a unit with the
\* embedding it came with and a unit with the embedding it was given
C21_Witness ==
  /\ op.name = "addUnits" /\ op.outcome = "ok"
  /\ op.replaced = 0
  /\ \E i, j \in 1..Len(units) :
        /\ units[i] = U3x
        /\ units[j] = [U1a EXCEPT !.hasEmbedding = TRUE,
                                  !.embedding = Embedding(U1a.content)]

-----------------------------------------------------------------------------
(* hybridSearch step by step: other calls run while it awaits *)

\* hybridSearch up to its await: semanticSearch is called first and stops at
\* its request for the query embedding, then keywordSearch runs to its end,
\* rebuilding the lexical index when it is marked stale
HybridBegin(query, filter, topKArg) ==
  /\ flight.stage \in {"none", "done", "failed"}
  /\ Called
  /\ \E kw \in {keywordSearch(units, bm25, needsRebuild, query, DepthOf(topKArg) * 2)} :
       /\ bm25' = kw.bm25
       /\ flight' = [NoFlight EXCEPT !.stage = "embed", !.query = query,
                                     !.filter = filter, !.topK = topKArg,
                                     !.keywordResults = kw.results,
                                     !.lexicalOver = units]
  /\ needsRebuild' = FALSE
  /\ UNCHANGED <<units, op, res, latest, config, pc, rt, gen, calls, out,
               outerVars>>

\* the call ends with an error
HybridFailed ==
  /\ flight' = [flight EXCEPT !.stage = "failed"]
  /\ op' = [NoOp EXCEPT !.name = "hybridSearch", !.outcome = "throw",
                        !.query = flight.query, !.filter = flight.filter,
                        !.topK = flight.topK]
  /\ res' = <<>>

\* the request for the query embedding ends: semanticSearch scores the units
\* the map holds now
HybridEmbedded(providerOk) ==
  /\ flight.stage = "embed"
  /\ \E sem \in {semanticSearch(units, flight.query, DepthOf(flight.topK) * 2,
                                providerOk)} :
       IF sem.threw THEN HybridFailed
       ELSE /\ flight' = [flight EXCEPT !.stage = "merge",
                                        !.semanticResults = sem.results,
                                        !.semanticOver = units]
            /\ UNCHANGED <<op, res>>
  /\ UNCHANGED <<units, bm25, needsRebuild, latest, nOps, config, pc, rt, gen, calls, out,
               outerVars>>

\* HybridMerged looking each id up in the map the lexical pass saw
HybridMerged_staleMap ==
  /\ flight.stage = "merge"
  /\ IF \E i \in 1..Len(flight.keywordResults) :
          flight.keywordResults[i].unit = UndefinedUnit
     THEN HybridFailed
     ELSE /\ flight' = [flight EXCEPT !.stage = "done"]
          /\ op' = [NoOp EXCEPT !.name = "hybridSearch", !.outcome = "ok",
                                !.query = flight.query, !.filter = flight.filter,
                                !.topK = flight.topK]
          /\ res' = hybridMerge(flight.lexicalOver, flight.semanticResults,
                                flight.keywordResults, flight.filter,
                                DepthOf(flight.topK))
  /\ UNCHANGED <<units, bm25, needsRebuild, latest, nOps, config, pc, rt, gen, calls, out,
               outerVars>>

\* Promise.all has resolved: the two layers' results are merged, each id
\* looked up in the map as it is now
HybridMerged ==
  /\ flight.stage = "merge"
  /\ IF \E i \in 1..Len(flight.keywordResults) :
          flight.keywordResults[i].unit = UndefinedUnit
     THEN HybridFailed
     ELSE /\ flight' = [flight EXCEPT !.stage = "done"]
          /\ op' = [NoOp EXCEPT !.name = "hybridSearch", !.outcome = "ok",
                                !.query = flight.query, !.filter = flight.filter,
                                !.topK = flight.topK]
          /\ res' = hybridMerge(units, flight.semanticResults, flight.keywordResults,
                                flight.filter, DepthOf(flight.topK))
  /\ UNCHANGED <<units, bm25, needsRebuild, latest, nOps, config, pc, rt, gen, calls, out,
               outerVars>>

\* a loaded index, its lexical index built or not, serving two calls
InitInterleaved ==
  /\ \E load \in Loads :
       /\ units = addUnits(<<>>, load, TRUE).units
       /\ \E built \in BOOLEAN :
            /\ bm25 = IF built THEN rebuildLexicalIndex(units, NewBM25) ELSE NewBM25
            /\ needsRebuild = (~built /\ load # <<>>)
  /\ op = NoOp
  /\ res = <<>>
  /\ latest = [id \in UnitIds |-> IF MapHas(units, id) THEN MapGet(units, id).content
                                  ELSE NoText]
  /\ nOps = MaxOps - 2
  /\ RetrieverAtRest
  /\ OuterAtRest

NextInterleaved ==
  \/ \E query \in Queries, filter \in Filters, topKArg \in TopKArgs :
       HybridBegin(query, filter, topKArg)
  \/ \E providerOk \in BOOLEAN : HybridEmbedded(providerOk)
  \/ HybridMerged
  \/ \E batch \in Batches(0, MaxBatch) :
       \E providerOk \in IF NeedsEmbedding(batch) THEN BOOLEAN ELSE {TRUE} :
          AddUnits(batch, providerOk)
  \/ \E id \in UnitIds : RemoveUnit(id)
  \/ Clear

SpecInterleaved == InitInterleaved /\ [][NextInterleaved]_vars

\* C22: mutations of a HybridIndex are serialized relative to reads: no
\* addUnits, removeUnit or clear takes effect between the start and the end
\* of an in-flight hybridSearch, so the semantic layer and the lexical layer
\* of one hybridSearch are evaluated over the same set of units.
C22_Original ==
  /\ flight.stage \in {"merge", "done"} =>
       Range(flight.semanticOver) = Range(flight.lexicalOver)
  /\ flight.stage = "done" => Range(units) = Range(flight.lexicalOver)

-----------------------------------------------------------------------------
(* Claims about the needsRebuild flag *)

\* the scorer's documents are the contents of the stored units, in map order
DocumentsCurrent ==
  bm25.documents = [i \in 1..Len(units) |-> tokenize(units[i].content)]

\* C23: in every reachable state of a HybridIndex, needsRebuild = false
\* implies that the lexical scorer's document list is exactly the contents
\* of the current units in enumeration order; addUnits (when it returns) and
\* removeUnit set the flag, rebuildLexicalIndex and clear reset it, and no
\* BM25 query is answered while the flag is set: a lexical or hybrid search
\* that finds it set rebuilds the scorer first.
C23_FlagInvariant ==
  /\ [](~needsRebuild => DocumentsCurrent)
  /\ [][/\ (op'.name = "addUnits" /\ op'.outcome = "ok") => needsRebuild'
        /\ (op'.name = "addUnits" /\ op'.outcome = "throw") =>
             UNCHANGED <<units, needsRebuild>>
        /\ op'.name = "removeUnit" => needsRebuild'
        /\ op'.name \in {"rebuildLexicalIndex", "clear"} => ~needsRebuild'
        /\ op'.name \in {"keywordSearch", "hybridSearch"} =>
             /\ ~needsRebuild'
             /\ bm25' = IF needsRebuild THEN addDocuments(bm25, Contents) ELSE bm25
        /\ op'.name = "keywordSearch" =>
             [i \in 1..Len(res') |-> res'[i].score] =
               [i \in 1..Len(res') |->
                  topK(addDocuments(NewBM25, Contents), op'.query,
                       DepthOr(op'.topK, KeywordTopK))[i].score]]_vars

\* a rebuild after three calls has left a scorer over two units or more
C23_Witness ==
  /\ op.name = "rebuildLexicalIndex"
  /\ nOps >= 3
  /\ ~needsRebuild
  /\ Len(bm25.documents) >= 2

-----------------------------------------------------------------------------
(* Claims about the reflection loop *)

\* retrieve is inside reflectionSearch
InReflection == pc \in {"adequacy", "followUp", "extra"}

\* retrieve has returned its context
Retrieved == pc = "idle" /\ out.call = "retrieve" /\ out.outcome = "ok"

\* the units the first hybridSearch of the last retrieve returned
InitialUnits ==
  LET found == hybridSearch(units, bm25, needsRebuild, rt.firstQuery, rt.firstFilter,
                            rt.firstDepth, TRUE).results
  IN  [i \in 1..Len(found) |-> found[i].unit]

\* C24: the reflection loop performs at most maxReflectionRounds iterations
\* and then terminates, for every sequence of oracle answers; with
\* maxReflectionRounds = 0 retrieve returns the initial units without any
\* oracle call of the loop.
C24_LoopTerminates ==
  /\ [](rt.round <= config.maxReflectionRounds)
  /\ [](InReflection => rt.round < config.maxReflectionRounds)
  /\ []((Retrieved /\ config.maxReflectionRounds = 0) =>
          /\ calls.adequacy = 0 /\ calls.followUp = 0 /\ calls.complete = 0
          /\ out.units = InitialUnits)
  /\ (InReflection ~> pc = "idle")

\* a retrieve whose oracle never found the context adequate and proposed
\* queries in every round has returned after the last round
C24_Witness ==
  /\ Retrieved
  /\ rt.complexity = "HIGH"
  /\ config.maxReflectionRounds >= 1
  /\ rt.round = config.maxReflectionRounds
  /\ calls.followUp = config.maxReflectionRounds
  /\ Len(out.units) >= 2

\* a search of retrieve has returned and a round of the loop begins
RoundBegins ==
  /\ pc \in {"search", "extra"}
  /\ pc' # "extra"
  /\ out'.outcome # "throw"
  /\ pc = "search" => config.enableReflection /\ rt.complexity = "HIGH"
  /\ rt'.round < config.maxReflectionRounds

\* C25: checkAdequacy asks the oracle only when 1 to 9 units are held; with
\* 10 units or more it answers "adequate" without an oracle call, which ends
\* reflection, and with no unit it answers "inadequate" without an oracle
\* call, so the follow-up request is the next one.
C25_AdequacyShortCircuit ==
  /\ [](pc = "adequacy" => Len(rt.allUnits) \in 1..(EnoughContext - 1))
  /\ [][/\ calls'.adequacy > calls.adequacy =>
             RoundBegins /\ Len(rt'.allUnits) \in 1..(EnoughContext - 1)
        /\ RoundBegins =>
             /\ Len(rt'.allUnits) >= EnoughContext =>
                  Retrieved' /\ out'.units = rt'.allUnits /\ calls' = calls
             /\ Len(rt'.allUnits) = 0 =>
                  /\ pc' = "followUp"
                  /\ calls'.adequacy = calls.adequacy
                  /\ calls'.followUp = calls.followUp + 1
             /\ Len(rt'.allUnits) \in 1..(EnoughContext - 1) =>
                  /\ pc' = "adequacy"
                  /\ calls'.adequacy = calls.adequacy + 1
                  /\ calls'.followUp = calls.followUp]_vars

\* the oracle was asked once, with nine units held; the round's searches
\* brought a tenth and retrieve returned with a round left, unasked
C25_Witness ==
  /\ Retrieved
  /\ Len(out.units) >= EnoughContext
  /\ rt.round = 1 /\ config.maxReflectionRounds = 2
  /\ calls.adequacy = 1 /\ calls.followUp = 1

\* the follow-up reply yields no query: the request failed, the text is no
\* JSON or no array, or the array holds no string
NoProposal(reply) ==
  \/ reply.kind \in {"error", "nonJSON", "notArray"}
  \/ reply.kind = "array" /\ \A i \in 1..Len(reply.items) : ~reply.items[i].isString

\* C26: a failed adequacy request, and a follow-up request that fails, cannot
\* be parsed or proposes nothing, end the reflection loop without an error:
\* retrieve returns the units accumulated so far.
C26_FailuresEndLoop ==
  [][/\ \A reply \in AdequacyReplies :
          (Adequacy(reply) /\ ~reply.ok) =>
            Retrieved' /\ out'.units = rt.allUnits /\ calls'.complete = calls.complete
     /\ \A reply \in FollowUpReplies :
          (FollowUp(reply) /\ NoProposal(reply)) =>
            Retrieved' /\ out'.units = rt.allUnits /\ calls'.complete = calls.complete
     /\ calls'.caught > calls.caught =>
          Retrieved' /\ out'.units = rt.allUnits]_vars

\* a request of the second round failed after the first round had added a
\* unit, and retrieve returned the units of both searches
C26_Witness ==
  /\ Retrieved
  /\ calls.caught = 1
  /\ rt.round = 1
  /\ Len(out.units) > Len(InitialUnits)

DistinctIds(us) == \A i, j \in 1..Len(us) : us[i].id = us[j].id => i = j

\* the units the hybridSearch of depth 3 without filter returns for the
\* follow-up query at hand
FollowUpFound ==
  LET found == hybridSearch(units, bm25, needsRebuild, Head(rt.pending), NoFilter,
                            <<ReflectionDepth>>, TRUE).results
  IN  [i \in 1..Len(found) |-> found[i].unit]

\* C27: the units retrieve returns have pairwise distinct ids.  A round runs
\* at most 2 follow-up queries, each as a hybridSearch of depth 3 without
\* filter, whose units are appended when their id has not been seen; the
\* units of the initial hybridSearch stay first, in their order.
C27_DistinctUnits ==
  /\ [](/\ DistinctIds(rt.allUnits)
        /\ Len(rt.pending) <= 2
        /\ Retrieved =>
             /\ DistinctIds(out.units)
             /\ SubSeq(out.units, 1, Len(InitialUnits)) = InitialUnits)
  /\ [][(pc = "extra" /\ out'.outcome # "throw") =>
          /\ rt'.pending = Tail(rt.pending)
          /\ SubSeq(rt'.allUnits, 1, Len(rt.allUnits)) = rt.allUnits
          /\ SubSeq(rt'.allUnits, Len(rt.allUnits) + 1, Len(rt'.allUnits)) =
               SelectSeq(FollowUpFound,
                         LAMBDA u : \A i \in 1..Len(rt.allUnits) : rt.allUnits[i].id # u.id)]_vars

\* the first search returned one of three units, a follow-up search of depth
\* 3 all three, and retrieve returned three units
C27_Witness ==
  /\ Retrieved
  /\ Len(InitialUnits) = 1
  /\ Len(units) = 3
  /\ Len(out.units) = 3
  /\ rt.round >= 1

\* the condition under which retrieve calls reflectionSearch
Reflects == config.enableReflection /\ rt.planned /\ rt.complexity = "HIGH"

\* C28: the reflection loop is entered only when enableReflection is true
\* and the analysed complexity is HIGH.  For a LOW query, for the fallback
\* analysis and whenever enablePlanning is false, enableReflection or not,
\* retrieve issues no adequacy or follow-up request and returns exactly the
\* units of its one hybridSearch.
C28_ReflectionOnlyWhenHigh ==
  /\ InReflection =>
       /\ config.enableReflection /\ config.enablePlanning
       /\ rt.complexity = "HIGH" /\ ~rt.fellBack
  /\ rt.fellBack => rt.complexity = "LOW"
  /\ (pc \in {"search", "idle"} /\ rt.query # NoText /\ ~config.enablePlanning) =>
       ~rt.planned /\ rt.complexity = "none" /\ calls.completeJSON = 0
  /\ (Retrieved /\ ~Reflects) =>
       /\ calls.adequacy = 0 /\ calls.followUp = 0 /\ calls.complete = 0
       /\ rt.round = 0
       /\ out.units = InitialUnits

\* a retriever with reflection enabled and planning disabled has returned
\* the units of its search, few enough for the adequacy request to be due
\* had the loop been entered
C28_Witness ==
  /\ Retrieved
  /\ config.enableReflection /\ ~config.enablePlanning
  /\ config.maxReflectionRounds >= 1
  /\ Len(out.units) \in 1..(EnoughContext - 1)

-----------------------------------------------------------------------------
(* Claims about the filter retrieve derives *)

\* what the first hybridSearch of the last retrieve returns under a filter
FirstSearchUnder(filter) ==
  hybridSearch(units, bm25, needsRebuild, rt.firstQuery, filter, rt.firstDepth,
               TRUE).results

\* C29: in hybridSearch a filter only grants the symbolic bonus and never
\* excludes: under any filter the search returns as many units as without
\* one, all candidates when there is room, and a unit that fails the filter
\* is scored symbolicWeight lower than without a filter.  So the units
\* retrieve returns under derived temporal constraints are not confined to
\* the requested range.
C29_FilterNeverExcludes ==
  Retrieved =>
    \A f \in LayerFilters \cup {rt.firstFilter} :
      \E under \in {FirstSearchUnder(f)}, free \in {FirstSearchUnder(NoFilter)} :
         /\ Len(under) = Len(free)
         /\ rt.firstDepth[1] >= Len(units) => LayerIds(under) = LayerIds(free)
         /\ \A i \in 1..Len(under), j \in 1..Len(free) :
              under[i].unit.id = free[j].unit.id =>
                under[i].score =
                  free[j].score - (IF matchesConstraints(under[i].unit, f) THEN 0
                                   ELSE SymbolicWeight_x10 * 1000)

\* retrieve derived a range with both bounds and returned, from its first
\* search, a unit inside the range and a unit outside it
C29_Witness ==
  /\ Retrieved
  /\ rt.firstFilter.hasRange
  /\ rt.firstFilter.start # NoTime /\ rt.firstFilter.end # NoTime
  /\ \E i, j \in 1..Len(InitialUnits) :
       /\ out.units[i].timestamp # NoTime
       /\ ~isWithinRange(out.units[i].timestamp, rt.firstFilter.start, rt.firstFilter.end)
       /\ out.units[j].timestamp # NoTime
       /\ isWithinRange(out.units[j].timestamp, rt.firstFilter.start, rt.firstFilter.end)

\* the range of the filter has exactly one bound
OneBound(filter) ==
  filter.hasRange /\ ((filter.start = NoTime) # (filter.end = NoTime))

\* the instants a unit may carry, NoTime included
Instants == 0..10

\* C30: a timestampRange with only a start or only an end constrains
\* nothing.  retrieve builds the filter as soon as the analysis yields a
\* start or an end, every unit satisfies a filter of one bound whatever its
\* timestamp, and the search under it returns what it returns without filter.
C30_OneBoundConstrainsNothing ==
  /\ (pc # "analyze" /\ rt.planned /\ rt.temporal.given
        /\ (rt.temporal.start # NoTime \/ rt.temporal.end # NoTime)) =>
       /\ rt.filter.given /\ rt.filter.hasRange
       /\ rt.filter.start = rt.temporal.start /\ rt.filter.end = rt.temporal.end
  /\ OneBound(rt.filter) =>
       \A i \in 1..Len(units), t \in Instants :
          matchesFilter([units[i] EXCEPT !.timestamp = t], rt.filter)
  /\ (Retrieved /\ OneBound(rt.firstFilter)) =>
       FirstSearchUnder(rt.firstFilter) = FirstSearchUnder(NoFilter)

\* retrieve derived a range that only ends at 6 and returned a unit of a
\* later timestamp from a search that gave it the symbolic bonus
C30_Witness ==
  /\ Retrieved
  /\ rt.firstFilter.hasRange
  /\ rt.firstFilter.start = NoTime /\ rt.firstFilter.end # NoTime
  /\ \E i \in 1..Len(InitialUnits) : out.units[i].timestamp > rt.firstFilter.end

\* the most units one round of reflection adds: 2 searches of depth 3
RoundGain == 2 * ReflectionDepth

\* C31: the number of units retrieve returns is bounded.  At the head of
\* every round and at the return it is at most the depth of the first search
\* plus 6 per round run, so at most k_dyn + 6 * maxReflectionRounds; with the
\* default configuration it is never more than 15.
C31_ReturnBounded ==
  /\ (pc \in {"adequacy", "followUp"} \/ Retrieved) =>
       /\ Len(InitialUnits) <= rt.firstDepth[1]
       /\ Len(rt.allUnits) <= rt.firstDepth[1] + RoundGain * rt.round
  /\ Retrieved =>
       /\ Len(out.units) <= rt.firstDepth[1] + RoundGain * config.maxReflectionRounds
       /\ config = DefaultConfig => Len(out.units) <= 15

\* the default retriever has returned 15 units: nine of the first search and
\* six of the two follow-up searches of one round
C31_Witness ==
  /\ Retrieved
  /\ config = DefaultConfig
  /\ Len(InitialUnits) = 9
  /\ rt.round = 1
  /\ Len(out.units) = 15

-----------------------------------------------------------------------------
(* Claims about a hybridSearch that other calls overtake *)

\* the ids the lexical pass of the call in flight returned
FlightLexicalIds == LayerIds(flight.keywordResults)

\* C32: when removeUnit or clear runs while a hybridSearch awaits the query
\* embedding, the hybridSearch still completes without error once the
\* embedding arrives, and every unit it returns is in the index, as stored,
\* at the moment of the merge: an id known only from the earlier lexical
\* pass is skipped.
C32_RemovedUnitsSkipped ==
  [][/\ HybridEmbedded(TRUE) => flight'.stage = "merge"
     /\ HybridMerged =>
          /\ flight'.stage = "done" /\ op'.outcome = "ok"
          /\ \A i \in 1..Len(res') :
                /\ MapHas(units, res'[i].unit.id)
                /\ res'[i].unit = MapGet(units, res'[i].unit.id)
          /\ \A id \in FlightLexicalIds :
                ~MapHas(units, id) => id \notin LayerIds(res')]_vars

\* a hybridSearch has completed and returned a unit, after a unit its
\* lexical pass had found was removed from a map that held two or more
C32_Witness ==
  /\ flight.stage = "done"
  /\ op.name = "hybridSearch" /\ op.outcome = "ok"
  /\ Len(flight.lexicalOver) >= 2
  /\ \E id \in FlightLexicalIds : ~MapHas(units, id)
  /\ Len(res) >= 1

-----------------------------------------------------------------------------
(* Claims about what the analysis hands to the search *)

\* the reply with other lexical keywords, all else equal
WithKeywords(reply, keywords) == [reply EXCEPT !.lexical_keywords = keywords]

KeywordChoices == {<<>>, <<Bob>>, <<Q2>>, <<Q2, Bob>>}

\* C33: the lexical keywords of the analysis do not influence retrieval.
\* A reply that differs only in lexical_keywords leaves retrieve with the
\* same search string, filter and depth; the first hybridSearch, both its
\* layers, is run with the semantic query; the units returned and
\* totalTokens are determined without the keywords.
C33_KeywordsIgnored ==
  /\ [][\A reply \in AnalysisReplies(rt.query) :
          Analyze(reply) =>
            \A keywords \in KeywordChoices :
               \E other \in {analyzeQuery(rt.query, WithKeywords(reply, keywords))} :
                  /\ rt'.searchQuery = other.semanticQuery
                  /\ rt'.filter = filterOf(other.temporal)
                  /\ rt'.dynamicK = computeDynamicK(config.baseK,
                                                    complexityScore(other.complexity),
                                                    config.complexityDelta_x10)
                  /\ rt'.complexity = other.complexity
                  /\ rt'.semanticQuery = other.semanticQuery
                  /\ rt'.rationale = other.rationale]_vars
  /\ [](Retrieved =>
          /\ rt.planned => rt.firstQuery = rt.semanticQuery
          /\ SubSeq(out.units, 1, Len(InitialUnits)) = InitialUnits
          /\ out.totalTokens = estimateTokens(out.units))

\* an analysis with the keyword "report" and the semantic query "where did
\* Al meet Bob": retrieve has returned the unit about Al first, from an index
\* that holds the unit about the report
C33_Witness ==
  /\ Retrieved
  /\ rt.planned /\ ~rt.fellBack
  /\ rt.lexicalKeywords = <<Q2>>
  /\ rt.firstQuery = Q1
  /\ Len(out.units) >= 2
  /\ out.units[1].id = "u1"
  /\ MapHas(units, "u2")

-----------------------------------------------------------------------------
(* stages/compression.ts: MemoryBuilder *)

\* most addDialogue calls made on one builder
MaxAdds == 3
\* largest windowSize, and overlapSize, a builder is configured with
MaxWindow == 2

callVars == <<op, res, latest, nOps>>

\* a new HybridIndex on which no call was made
IndexAtRest ==
  /\ units = <<>>
  /\ bm25 = NewBM25
  /\ needsRebuild = FALSE
  /\ op = NoOp
  /\ res = <<>>
  /\ latest = [id \in UnitIds |-> NoText]
  /\ nOps = 0

\* "ok"
Ok == <<"o","k">>

MkDialogue(id, speaker, content) == [id |-> id, speaker |-> speaker, content |-> content]

\* the dialogues callers hand to addDialogue
Dialogues == {MkDialogue(0, Al, Ok), MkDialogue(1, Bob, T_b)}

\* the configurations a builder is constructed with: Partial<CompressionConfig>
\* over the defaults, the sizes unchecked
CompressionConfigs ==
  {[DefaultCompression EXCEPT !.windowSize = w, !.overlapSize = o] :
     w \in 1..MaxWindow, o \in 0..MaxWindow}

\* the ids uuidv4() gives, in the order it gives them
Uuids == <<"u1", "u2">>

\* Array.prototype.slice(start)
SliceFrom(s, start) ==
  LET from == IF start >= 0 THEN Min(start, Len(s)) ELSE Max(Len(s) + start, 0)
  IN  SubSeq(s, from + 1, Len(s))

DialogueIds(ds) == {ds[i].id : i \in 1..Len(ds)}

\* MemoryBuilder.hasFullWindow
hasFullWindow(b) == Len(b.dialogueBuffer) >= b.config.windowSize

\* MemoryBuilder.addDialogue
addDialogue(b, dialogue) ==
  IF dialogue.id \notin b.processedDialogueIds
  THEN [b EXCEPT !.dialogueBuffer = Append(@, dialogue)]
  ELSE b

\* extractWindow moving the buffer forward by the overlap
extractWindow_overlapStride(b) ==
  LET stride   == b.config.overlapSize
      consumed == Slice0(b.dialogueBuffer, stride)
  IN  [window  |-> Slice0(b.dialogueBuffer, b.config.windowSize),
       builder |-> [b EXCEPT !.dialogueBuffer = SliceFrom(@, stride),
                             !.processedDialogueIds = @ \cup DialogueIds(consumed)]]

\* extractWindow moving the buffer forward by the window and the overlap
extractWindow_skipsOverlap(b) ==
  LET stride   == b.config.windowSize + b.config.overlapSize
      consumed == Slice0(b.dialogueBuffer, stride)
  IN  [window  |-> Slice0(b.dialogueBuffer, b.config.windowSize),
       builder |-> [b EXCEPT !.dialogueBuffer = SliceFrom(@, stride),
                             !.processedDialogueIds = @ \cup DialogueIds(consumed)]]

\* MemoryBuilder.extractWindow: the window and the builder after it
extractWindow(b) ==
  LET stride   == b.config.windowSize - b.config.overlapSize
      consumed == Slice0(b.dialogueBuffer, stride)
  IN  [window  |-> Slice0(b.dialogueBuffer, b.config.windowSize),
       builder |-> [b EXCEPT !.dialogueBuffer = SliceFrom(@, stride),
                             !.processedDialogueIds = @ \cup DialogueIds(consumed)]]

\* window.map((d) => `${d.speaker}: ${d.content}`).join("\n")
windowText(window) ==
  Join([i \in 1..Len(window) |->
          window[i].speaker \o <<":", " ">> \o window[i].content], <<"\n">>)

\* cleaned[0] === cleaned[0].toUpperCase() && cleaned[0] !== cleaned[0].toLowerCase()
IsUpper(c) == LowerChar(c) # c

\* MemoryBuilder.extractBasicEntities: the distinct capitalised words
extractBasicEntities(text) ==
  LET words   == SplitWs(text)
      cleaned == [i \in 1..Len(words) |-> SelectSeq(words[i], IsWordChar)]
  IN  {cleaned[i] : i \in {j \in 1..Len(words) :
                             Len(cleaned[j]) > 1 /\ IsUpper(cleaned[j][1])}}

\* what the embedding provider answers to embed([windowText])
EmbedReplies ==
  {[ok |-> FALSE, vector |-> <<>>]}
    \cup {[ok |-> TRUE, vector |-> v] : v \in {<<3, 4>>, <<0, 1>>}}

\* what the LLM answers to the extraction prompt: a failure, or the contents
\* of the memory units (no more than uuidv4 has ids left for)
ExtractReplies(given) ==
  {[ok |-> FALSE, memory_units |-> <<>>]}
    \cup {[ok |-> TRUE, memory_units |-> cs] :
            cs \in {c \in {<<>>, <<T_b>>} : given + Len(c) <= Len(Uuids)}}

\* MemoryBuilder.computeInformationScore in ten-thousandths, once the
\* provider has answered (the answer is awaited only when a previous window
\* left its embedding)
computeInformationScore(b, window, reply) ==
  LET currentEntities == extractBasicEntities(windowText(window))
      newEntities == {e \in currentEntities : toLowerCase(e) \notin b.previousEntities}
      entityScore == Min(20 * Cardinality(newEntities), 100)
      semanticScore ==
        IF b.previousWindowEmbedding # NoEmbedding
        THEN 100 - cosineSimilarity(reply.vector, b.previousWindowEmbedding)
        ELSE 100
      alpha == b.config.entityWeight_x100
  IN  alpha * entityScore + (100 - alpha) * semanticScore

\* MemoryBuilder.extractMemoryUnits: the units of a reply, [] on a failure
extractMemoryUnits(reply, given) ==
  IF reply.ok
  THEN [i \in 1..Len(reply.memory_units) |->
          MkUnit(Uuids[given + i], reply.memory_units[i], FALSE, <<>>, NoTime, NoText)]
  ELSE <<>>

\* MemoryBuilder.updateWindowState once the provider has answered
updateWindowState(b, window, reply) ==
  [b EXCEPT !.previousWindowEmbedding = reply.vector,
            !.previousEntities =
               @ \cup {toLowerCase(e) : e \in extractBasicEntities(windowText(window))}]

\* MemoryBuilder.processWindow: whether it threw, the units it returned, the
\* builder after it and the ids uuidv4 gave
processWindow(b, window, given, scoreReply, extractReply, updateReply) ==
  LET counted == [b EXCEPT !.windowCounter = @ + 1]
      asked   == b.previousWindowEmbedding # NoEmbedding
      found   == extractMemoryUnits(extractReply, given)
  IN  IF asked /\ ~scoreReply.ok
      THEN [threw |-> TRUE, units |-> <<>>, builder |-> counted, uuids |-> given]
      ELSE IF computeInformationScore(b, window, scoreReply)
                < b.config.redundancyThreshold_x100 * 100
      THEN [threw |-> FALSE, units |-> <<>>, builder |-> counted, uuids |-> given]
      ELSE IF ~updateReply.ok
      THEN [threw |-> TRUE, units |-> <<>>, builder |-> counted,
            uuids |-> given + Len(found)]
      ELSE [threw |-> FALSE, units |-> found,
            builder |-> updateWindowState(counted, window, updateReply),
            uuids |-> given + Len(found)]

\* MemoryBuilder.reset
reset(b) == NewBuilder(b.config)

\* no MemoryBuilder call is between its awaits
BuilderIdle == bcall.pc \in {"idle", "done", "threw"}

\* the caller hands a dialogue to addDialogue
BuilderAddDialogue(dialogue) ==
  /\ BuilderIdle
  /\ fed.adds < MaxAdds
  /\ builder' = addDialogue(builder, dialogue)
  /\ bcall' = [NoBCall EXCEPT !.name = "addDialogue", !.pc = "done"]
  /\ fed' = [fed EXCEPT !.adds = @ + 1,
                        !.accepted = IF dialogue.id \in builder.processedDialogueIds
                                     THEN @ ELSE @ \cup {dialogue.id}]

\* processWindows is called: const allUnits = []
BuilderProcessWindows ==
  /\ BuilderIdle
  /\ bcall' = [NoBCall EXCEPT !.name = "processWindows", !.pc = "loop"]
  /\ UNCHANGED <<builder, fed>>

\* the loop test of processWindows and, on a full window, extractWindow up
\* to the await of processWindow
BuilderLoopTest ==
  /\ bcall.name = "processWindows"
  /\ bcall.pc = "loop"
  /\ builder.windowCounter <= MaxAdds
  /\ IF ~hasFullWindow(builder)
     THEN /\ bcall' = [bcall EXCEPT !.pc = "done", !.result = bcall.allUnits]
          /\ UNCHANGED <<builder, fed>>
     ELSE \E x \in {extractWindow(builder)} :
             /\ builder' = x.builder
             /\ fed' = [fed EXCEPT !.handed = @ \cup DialogueIds(x.window)]
             /\ bcall' = [bcall EXCEPT !.pc = "window", !.window = x.window]

\* processWindow on the extracted window, from its call to the push of its
\* units onto allUnits
BuilderWindowProcessed(scoreReply, extractReply, updateReply) ==
  /\ bcall.name = "processWindows"
  /\ bcall.pc = "window"
  /\ \E r \in {processWindow(builder, bcall.window, fed.uuids,
                              scoreReply, extractReply, updateReply)} :
        /\ builder' = r.builder
        /\ fed' = [fed EXCEPT !.uuids = r.uuids]
        /\ bcall' = IF r.threw THEN [bcall EXCEPT !.pc = "threw"]
                    ELSE [bcall EXCEPT !.pc = "loop", !.allUnits = @ \o r.units]

\* processRemaining, from the call to its return
BuilderProcessRemaining(scoreReply, extractReply, updateReply) ==
  /\ BuilderIdle
  /\ IF Len(builder.dialogueBuffer) = 0
     THEN /\ bcall' = [NoBCall EXCEPT !.name = "processRemaining", !.pc = "done"]
          /\ UNCHANGED <<builder, fed>>
     ELSE \E window \in {builder.dialogueBuffer} :
          \E taken \in {[builder EXCEPT !.dialogueBuffer = <<>>,
                                        !.processedDialogueIds = @ \cup DialogueIds(window)]} :
          \E r \in {processWindow(taken, window, fed.uuids,
                                  scoreReply, extractReply, updateReply)} :
             /\ builder' = r.builder
             /\ fed' = [fed EXCEPT !.handed = @ \cup DialogueIds(window), !.uuids = r.uuids]
             /\ bcall' = [NoBCall EXCEPT !.name = "processRemaining",
                                         !.pc = IF r.threw THEN "threw" ELSE "done",
                                         !.window = window,
                                         !.result = r.units]

\* reset: what was accepted is dropped with the buffer
BuilderReset ==
  /\ BuilderIdle
  /\ bcall.name # "reset"
  /\ builder' = reset(builder)
  /\ bcall' = [NoBCall EXCEPT !.name = "reset", !.pc = "done"]
  /\ fed' = [fed EXCEPT !.accepted = {}, !.handed = {}]

InitBuilder ==
  /\ IndexAtRest
  /\ RetrieverAtRest
  /\ builder \in {NewBuilder(c) : c \in CompressionConfigs}
  /\ bcall = NoBCall
  /\ fed = NoFed
  /\ StorageAtRest
  /\ mem = NewMem
  /\ mcall = NoMCall

\* the answers computeInformationScore awaits: none while no previous window
\* left its embedding
ScoreReplies(b, replies) ==
  IF b.previousWindowEmbedding # NoEmbedding THEN replies
  ELSE {[ok |-> TRUE, vector |-> <<>>]}

WindowProcessed ==
  \E scoreReply \in ScoreReplies(builder, EmbedReplies), extractReply \in ExtractReplies(fed.uuids),
     updateReply \in EmbedReplies :
       BuilderWindowProcessed(scoreReply, extractReply, updateReply)

\* what a MemoryBuilder call leaves alone
besideBuilder == <<indexVars, callVars, retrVars, storageVars, mem, mcall>>

NextBuilder ==
  \/ /\ \E dialogue \in Dialogues : BuilderAddDialogue(dialogue)
     /\ UNCHANGED besideBuilder
  \/ BuilderProcessWindows /\ UNCHANGED besideBuilder
  \/ BuilderLoopTest /\ UNCHANGED besideBuilder
  \/ WindowProcessed /\ UNCHANGED besideBuilder
  \/ /\ \E scoreReply \in ScoreReplies(builder, EmbedReplies),
           extractReply \in ExtractReplies(fed.uuids), updateReply \in EmbedReplies :
             BuilderProcessRemaining(scoreReply, extractReply, updateReply)
     /\ UNCHANGED besideBuilder
  \/ BuilderReset /\ UNCHANGED besideBuilder

SpecBuilder == InitBuilder /\ [][NextBuilder]_vars

\* the loop test runs as soon as the call is resumed, and the providers
\* answer every request processWindow awaits, so that processWindow comes to
\* its end (returning or throwing)
SpecBuilderFair ==
  /\ SpecBuilder
  /\ WF_vars(BuilderLoopTest /\ UNCHANGED besideBuilder)
  /\ []<>(bcall.pc # "window")

-----------------------------------------------------------------------------
(* Claims about the windows of the MemoryBuilder *)

\* 0 <= overlapSize < windowSize
ValidSizes(c) == 0 <= c.overlapSize /\ c.overlapSize < c.windowSize

\* a turn of the loop of processWindows that found a full window
WindowTaken == BuilderLoopTest /\ hasFullWindow(builder)

\* C34: whenever 0 <= overlapSize < windowSize, processWindows terminates for
\* every buffer content: each turn of its loop takes as window exactly the
\* first windowSize dialogues of the buffer and removes exactly the first
\* windowSize - overlapSize dialogues from the buffer, a call that has entered
\* the loop leaves it (returning, or rejecting when a provider failed inside
\* processWindow), and a call that returns leaves fewer than windowSize
\* dialogues buffered.
C34_ProcessWindowsTerminates ==
  /\ [][(ValidSizes(builder.config) /\ WindowTaken) =>
          \E w \in {builder.config.windowSize}, o \in {builder.config.overlapSize} :
             /\ Len(bcall'.window) = w
             /\ bcall'.window = SubSeq(builder.dialogueBuffer, 1, w)
             /\ Len(builder'.dialogueBuffer) = Len(builder.dialogueBuffer) - (w - o)
             /\ builder'.dialogueBuffer =
                  SubSeq(builder.dialogueBuffer, w - o + 1, Len(builder.dialogueBuffer))]_vars
  /\ []((ValidSizes(builder.config) /\ bcall.name = "processWindows" /\ bcall.pc = "done")
          => Len(builder.dialogueBuffer) < builder.config.windowSize)
  /\ (ValidSizes(builder.config) /\ bcall.name = "processWindows" /\ bcall.pc = "loop")
       ~> (bcall.pc \in {"done", "threw"})

\* a call that returned after two windows with an overlap
C34_Witness ==
  /\ ValidSizes(builder.config)
  /\ bcall.name = "processWindows"
  /\ bcall.pc = "done"
  /\ builder.config.overlapSize = 1
  /\ builder.windowCounter = 2
  /\ Len(bcall.window) = 2
  /\ Len(builder.dialogueBuffer) = 1


\* processRemaining has come to its end
Finalized == bcall.name = "processRemaining" /\ bcall.pc \in {"done", "threw"}

\* every dialogue the buffer accepted was in a window handed to processWindow,
\* the buffer is empty and the ids are marked processed
NothingSkipped ==
  /\ fed.accepted \subseteq fed.handed
  /\ builder.dialogueBuffer = <<>>
  /\ fed.accepted \subseteq builder.processedDialogueIds

\* C35 as stated, for every configuration a MemoryBuilder accepts: once
\* processRemaining has completed, every dialogue accepted into the buffer was
\* in a window handed to processWindow, the buffer is empty and every such
\* dialogue id is marked processed.
C35_Original == Finalized => NothingSkipped

\* C35: whenever 0 <= overlapSize < windowSize, no dialogue is skipped by
\* compression: a dialogue accepted into the buffer is still buffered or was in
\* a window handed to processWindow, only dialogues that were in such a window
\* are marked processed, and once processRemaining has completed (returning or
\* rejecting) every accepted dialogue was in a window handed on, the buffer is
\* empty and every such id is marked processed.
C35_NoDialogueSkipped ==
  ValidSizes(builder.config) =>
     /\ fed.accepted \subseteq (fed.handed \cup DialogueIds(builder.dialogueBuffer))
     /\ (fed.accepted \cap builder.processedDialogueIds) \subseteq fed.handed
     /\ Finalized => NothingSkipped

\* processRemaining returned after processWindows had taken a window and left
\* its overlap in the buffer
C35_Witness ==
  /\ ValidSizes(builder.config)
  /\ builder.config.overlapSize = 1
  /\ bcall.name = "processRemaining"
  /\ bcall.pc = "done"
  /\ builder.windowCounter = 2
  /\ Len(bcall.window) = 2
  /\ Cardinality(fed.accepted) = 2
  /\ NothingSkipped

-----------------------------------------------------------------------------
(* storage/file.ts: FileStorage *)

\* a FileStorage with the file at its path
WithFile(st, f) == [storage |-> st, file |-> f]

\* a file holding the JSON of these units
FileOf(us) == [exists |-> TRUE, units |-> us]

\* FileStorage.ensureLoaded, the file being readable or absent
FileStorage_ensureLoaded(st) ==
  IF st.storage.loaded THEN st
  ELSE [st EXCEPT !.storage.units = IF st.file.exists THEN MapSetAll(@, st.file.units)
                                    ELSE @,
                  !.storage.loaded = TRUE]

\* FileStorage.persist
FileStorage_persist(st) ==
  IF ~st.storage.autoSave THEN st
  ELSE [st EXCEPT !.file = FileOf(st.storage.units)]

\* FileStorage.saveUnit
FileStorage_saveUnit(st, unit) ==
  FileStorage_persist([FileStorage_ensureLoaded(st) EXCEPT !.storage.units = MapSet(@, unit)])

\* FileStorage.saveUnits
FileStorage_saveUnits(st, batch) ==
  FileStorage_persist(
    [FileStorage_ensureLoaded(st) EXCEPT !.storage.units = MapSetAll(@, batch)])

\* FileStorage.deleteUnit
FileStorage_deleteUnit(st, id) ==
  FileStorage_persist(
    [FileStorage_ensureLoaded(st) EXCEPT !.storage.units = MapDelete(@, id)])

\* FileStorage.getAllUnits: the instance after the call; it returns
\* Array.from(units.values())
FileStorage_getAllUnits(st) == FileStorage_ensureLoaded(st)

\* FileStorage.getUnit: the instance after the call
FileStorage_getUnit(st, id) == FileStorage_ensureLoaded(st)

\* FileStorage.clear
FileStorage_clear(st) == FileStorage_persist([st EXCEPT !.storage.units = <<>>])

\* FileStorage.import
FileStorage_import(st, data) ==
  FileStorage_persist([st EXCEPT !.storage.units = MapSetAll(@, data)])

\* FileStorage.save: persist with autoSave forced on
FileStorage_save(st) ==
  [FileStorage_persist([st EXCEPT !.storage.autoSave = TRUE])
     EXCEPT !.storage.autoSave = st.storage.autoSave]

\* the files found at the path when the storage is constructed
InitialFiles == {NoFile, FileOf(<<U1a>>)}

\* the instance under observation and a second one on a copy of the file,
\* on which getAllUnits() was called before anything else
Lazy == WithFile(storage, file)
Forced == WithFile(forced.storage, forced.file)

\* one call made on both instances
Both(name, lazyAfter, forcedAfter) ==
  /\ storage' = lazyAfter.storage
  /\ file' = lazyAfter.file
  /\ forced' = [storage |-> forcedAfter.storage, file |-> forcedAfter.file,
                last |-> name]
  /\ UNCHANGED <<indexVars, callVars, retrVars, builderVars, inflight, mem, mcall>>

StorageSaveUnit(unit) ==
  Both("saveUnit", FileStorage_saveUnit(Lazy, unit), FileStorage_saveUnit(Forced, unit))

StorageSaveUnits(batch) ==
  Both("saveUnits", FileStorage_saveUnits(Lazy, batch),
       FileStorage_saveUnits(Forced, batch))

StorageDeleteUnit(id) ==
  Both("deleteUnit", FileStorage_deleteUnit(Lazy, id), FileStorage_deleteUnit(Forced, id))

StorageGetAllUnits ==
  Both("getAllUnits", FileStorage_getAllUnits(Lazy), FileStorage_getAllUnits(Forced))

StorageGetUnit(id) ==
  Both("getUnit", FileStorage_getUnit(Lazy, id), FileStorage_getUnit(Forced, id))

StorageClear == Both("clear", FileStorage_clear(Lazy), FileStorage_clear(Forced))

StorageImport(data) ==
  Both("import", FileStorage_import(Lazy, data), FileStorage_import(Forced, data))

StorageSave == Both("save", FileStorage_save(Lazy), FileStorage_save(Forced))

InitStorage ==
  /\ IndexAtRest
  /\ RetrieverAtRest
  /\ BuilderAtRest
  /\ \E autoSave \in BOOLEAN, f \in InitialFiles :
        /\ storage = NewStorage(autoSave)
        /\ file = f
        /\ \E loaded \in {FileStorage_getAllUnits(WithFile(NewStorage(autoSave), f))} :
              forced = [storage |-> loaded.storage, file |-> loaded.file,
                        last |-> "none"]
  /\ inflight = NoInflight
  /\ mem = NewMem
  /\ mcall = NoMCall

NextStorage ==
  \/ \E unit \in {U1b, U2} : StorageSaveUnit(unit)
  \/ \E batch \in {<<U1b, U2>>} : StorageSaveUnits(batch)
  \/ \E id \in {"u1", "u2"} : StorageDeleteUnit(id)
  \/ StorageGetAllUnits
  \/ \E id \in {"u1", "u2"} : StorageGetUnit(id)
  \/ StorageClear
  \/ \E data \in {<<U2>>} : StorageImport(data)
  \/ StorageSave

SpecStorage == InitStorage /\ [][NextStorage]_vars

-----------------------------------------------------------------------------
(* Claims about the lazy loading of the FileStorage *)

\* C36: lazy loading of FileStorage is transparent: after any sequence of
\* FileStorage operations (saveUnit, saveUnits, deleteUnit, clear, import,
\* save, reads) the in-memory units and the file are the same as after the
\* same sequence preceded by a getAllUnits() call that forces the load, for
\* both autoSave settings.
C36_Original ==
  forced.last # "none" =>
     /\ storage.units = forced.storage.units
     /\ file = forced.file

-----------------------------------------------------------------------------
(* storage/file.ts: FileStorage calls that overlap *)

\* most FileStorage calls started on one instance
MaxTasks == 2

\* a call at its first await: inside ensureLoaded when the instance has not
\* loaded (readFile is pending), else about to resume after ensureLoaded
NewTask(name, unit, loaded) ==
  [name |-> name, unit |-> unit, pc |-> IF loaded THEN "body" ELSE "reading",
   content |-> NoFile, data |-> <<>>]

NoUnit == UndefinedUnit

\* tasks without the i-th
Without(tasks, i) == SubSeq(tasks, 1, i - 1) \o SubSeq(tasks, i + 1, Len(tasks))

besideStorage == <<indexVars, callVars, retrVars, builderVars, forced, mem, mcall>>

\* saveUnit(unit) or getAllUnits() is called: ensureLoaded tests `loaded`
TaskStart(name, unit) ==
  /\ inflight.started < MaxTasks
  /\ inflight' = [inflight EXCEPT !.started = @ + 1,
                                  !.tasks = Append(@, NewTask(name, unit, storage.loaded))]
  /\ UNCHANGED <<storage, file, besideStorage>>

\* readFile reads the file of the i-th call (ENOENT when there is none)
TaskRead(i) ==
  /\ inflight.tasks[i].pc = "reading"
  /\ inflight' = [inflight EXCEPT !.tasks[i].pc = "merge", !.tasks[i].content = file]
  /\ UNCHANGED <<storage, file, besideStorage>>

\* ensureLoaded resumes with what readFile read: the units are set from it
\* and loaded becomes true
TaskMerge(i) ==
  /\ inflight.tasks[i].pc = "merge"
  /\ \E content \in {inflight.tasks[i].content} :
        /\ storage' = [storage EXCEPT !.units = IF content.exists
                                                THEN MapSetAll(@, content.units) ELSE @,
                                      !.loaded = TRUE]
        /\ inflight' = [inflight EXCEPT !.tasks[i].pc = "body",
                                        !.merges = IF content.exists THEN @ + 1 ELSE @]
  /\ UNCHANGED <<file, besideStorage>>

\* the call resumes after ensureLoaded: saveUnit sets the unit and persist
\* builds the data it will write (none with autoSave off); getAllUnits returns
TaskBody(i) ==
  /\ inflight.tasks[i].pc = "body"
  /\ \E task \in {inflight.tasks[i]} :
        IF task.name = "saveUnit"
        THEN \E after \in {MapSet(storage.units, task.unit)} :
                /\ storage' = [storage EXCEPT !.units = after]
                /\ inflight' =
                     IF storage.autoSave
                     THEN [inflight EXCEPT !.tasks[i].pc = "writing",
                                           !.tasks[i].data = after]
                     ELSE [inflight EXCEPT !.tasks = Without(@, i),
                                           !.saved = @ \cup {task.unit}]
        ELSE /\ inflight' = [inflight EXCEPT !.tasks = Without(@, i)]
             /\ UNCHANGED storage
  /\ UNCHANGED <<file, besideStorage>>

\* writeFile writes the data of the i-th call and saveUnit returns
TaskWrite(i) ==
  /\ inflight.tasks[i].pc = "writing"
  /\ file' = FileOf(inflight.tasks[i].data)
  /\ inflight' = [inflight EXCEPT !.tasks = Without(@, i),
                                  !.saved = @ \cup {inflight.tasks[i].unit}]
  /\ UNCHANGED <<storage, besideStorage>>

InitConcurrent ==
  /\ IndexAtRest
  /\ RetrieverAtRest
  /\ BuilderAtRest
  /\ \E autoSave \in BOOLEAN, f \in InitialFiles :
        /\ storage = NewStorage(autoSave)
        /\ file = f
        /\ inflight = [NoInflight EXCEPT !.found = f.units]
  /\ forced = [storage |-> NewStorage(TRUE), file |-> NoFile, last |-> "none"]
  /\ mem = NewMem
  /\ mcall = NoMCall

NextConcurrent ==
  \/ \E unit \in {U1b, U2} : TaskStart("saveUnit", unit)
  \/ TaskStart("getAllUnits", NoUnit)
  \/ \E i \in 1..Len(inflight.tasks) : TaskRead(i)
  \/ \E i \in 1..Len(inflight.tasks) : TaskMerge(i)
  \/ \E i \in 1..Len(inflight.tasks) : TaskBody(i)
  \/ \E i \in 1..Len(inflight.tasks) : TaskWrite(i)

SpecConcurrent == InitConcurrent /\ [][NextConcurrent]_vars

\* the units hold, for the id of unit, the version the file was found with
RevertedIn(m, unit) ==
  /\ MapHas(m, unit.id)
  /\ MapGet(m, unit.id) # unit
  /\ MapHas(inflight.found, unit.id)
  /\ MapGet(m, unit.id) = MapGet(inflight.found, unit.id)

\* C37: when FileStorage operations are started concurrently on an instance
\* that has not loaded yet, the file is read and merged into memory at most
\* once, and a value written by a completed saveUnit is never reverted, in
\* memory or on file, to the file's older version of that unit.
C37_Original ==
  /\ inflight.merges <= 1
  /\ \A unit \in inflight.saved :
        /\ ~RevertedIn(storage.units, unit)
        /\ storage.autoSave => ~RevertedIn(file.units, unit)

-----------------------------------------------------------------------------
(* SimpleMem over a FileStorage *)

\* options.compression of the SimpleMem under observation
MemCompression == [DefaultCompression EXCEPT !.windowSize = 2, !.overlapSize = 1]

\* the files found at the path: none, or one unit of an earlier session
MemFiles == {NoFile, FileOf(<<U3>>)}

\* what callers hand to addDialogue: a speaker and a content
Utterances == {<<Bob, T_b>>}

\* what the embedding provider answers the builder of this SimpleMem
MemEmbedReplies == {reply \in EmbedReplies : reply.vector \in {<<>>, <<3, 4>>}}

\* no SimpleMem call is between its awaits
MemIdle == mcall.pc \in {"idle", "done"}

\* a SimpleMem call has come to its end
MemEnded(name, outcome, found) ==
  [name |-> name, pc |-> "done", outcome |-> outcome, units |-> found]

\* SimpleMem.saveAndIndexUnits: the storage, its file and the index after it,
\* and whether it threw; the storage holds the unit objects the index has
\* given their embeddings
saveAndIndexUnits(st, m, batch, providerOk) ==
  IF Len(batch) = 0
  THEN [st |-> st, units |-> m, dirty |-> FALSE, threw |-> FALSE]
  ELSE LET saved   == FileStorage_saveUnits(st, batch)
           indexed == addUnits(m, batch, providerOk)
       IN  [st    |-> [saved EXCEPT !.storage.units = MapSetAll(@, indexed.batch)],
            units |-> indexed.units,
            dirty |-> indexed.dirty,
            threw |-> indexed.threw]

\* SimpleMem.initialize: the storage, the index and the flag after it, and
\* whether it threw
initialize(st, m, scorer, dirty, initialized, providerOk) ==
  LET loaded  == FileStorage_getAllUnits(st)
      found   == loaded.storage.units
      indexed == addUnits(m, found, providerOk)
  IN  IF initialized
      THEN [st |-> st, units |-> m, bm25 |-> scorer, dirty |-> dirty,
            initialized |-> TRUE, threw |-> FALSE]
      ELSE IF Len(found) = 0
      THEN [st |-> loaded, units |-> m, bm25 |-> scorer, dirty |-> dirty,
            initialized |-> TRUE, threw |-> FALSE]
      ELSE IF indexed.threw
      THEN [st |-> loaded, units |-> m, bm25 |-> scorer, dirty |-> dirty,
            initialized |-> FALSE, threw |-> TRUE]
      ELSE [st |-> [loaded EXCEPT !.storage.units = MapSetAll(@, indexed.batch)],
            units |-> indexed.units,
            bm25 |-> rebuildLexicalIndex(indexed.units, scorer),
            dirty |-> FALSE, initialized |-> TRUE, threw |-> FALSE]

besideMem == <<callVars, retrVars, forced, inflight>>

\* SimpleMem.addDialogue up to `await this.builder.processWindows()`, or to
\* its return when the buffer holds no full window
MemAddDialogue(speaker, content) ==
  /\ MemIdle
  /\ fed.adds < MaxAdds
  /\ \E dialogue \in {MkDialogue(mem.dialogueCounter, speaker, content)} :
     \E pushed \in {addDialogue(builder, dialogue)} :
        /\ mem' = [mem EXCEPT !.dialogueCounter = @ + 1]
        /\ builder' = pushed
        /\ fed' = [fed EXCEPT !.adds = @ + 1,
                              !.accepted = IF dialogue.id \in builder.processedDialogueIds
                                           THEN @ ELSE @ \cup {dialogue.id}]
        /\ IF hasFullWindow(pushed)
           THEN /\ bcall' = [NoBCall EXCEPT !.name = "processWindows", !.pc = "loop"]
                /\ mcall' = [NoMCall EXCEPT !.name = "addDialogue", !.pc = "building"]
           ELSE /\ bcall' = [NoBCall EXCEPT !.name = "addDialogue", !.pc = "done"]
                /\ mcall' = MemEnded("addDialogue", "ok", <<>>)
  /\ UNCHANGED <<indexVars, storage, file, besideMem>>

\* SimpleMem.addDialogues up to `await this.builder.processWindows()`
MemAddDialogues(first, second) ==
  /\ MemIdle
  /\ fed.adds + 2 <= MaxAdds
  /\ \E d1 \in {MkDialogue(mem.dialogueCounter, first[1], first[2])},
        d2 \in {MkDialogue(mem.dialogueCounter + 1, second[1], second[2])} :
        /\ mem' = [mem EXCEPT !.dialogueCounter = @ + 2]
        /\ builder' = addDialogue(addDialogue(builder, d1), d2)
        /\ fed' = [fed EXCEPT !.adds = @ + 2,
                              !.accepted = @ \cup ({d1.id, d2.id}
                                                    \ builder.processedDialogueIds)]
  /\ bcall' = [NoBCall EXCEPT !.name = "processWindows", !.pc = "loop"]
  /\ mcall' = [NoMCall EXCEPT !.name = "addDialogues", !.pc = "building"]
  /\ UNCHANGED <<indexVars, storage, file, besideMem>>

\* addDialogue / addDialogues once processWindows has ended:
\* saveAndIndexUnits(units), or the rejection of processWindows passed on
MemSaveAndIndex(providerOk) ==
  /\ mcall.pc = "building"
  /\ bcall.pc \in {"done", "threw"}
  /\ IF bcall.pc = "threw"
     THEN /\ mcall' = MemEnded(mcall.name, "throw", <<>>)
          /\ UNCHANGED <<indexVars, storage, file>>
     ELSE \E r \in {saveAndIndexUnits(Lazy, units, bcall.result, providerOk)} :
             /\ storage' = r.st.storage
             /\ file' = r.st.file
             /\ units' = r.units
             /\ needsRebuild' = IF r.dirty THEN TRUE ELSE needsRebuild
             /\ mcall' = MemEnded(mcall.name, IF r.threw THEN "throw" ELSE "ok",
                                  bcall.result)
             /\ UNCHANGED bm25
  /\ UNCHANGED <<builderVars, mem, besideMem>>

\* SimpleMem.finalize
MemFinalize(scoreReply, extractReply, updateReply, providerOk) ==
  /\ MemIdle
  /\ BuilderProcessRemaining(scoreReply, extractReply, updateReply)
  /\ IF bcall'.pc = "threw"
     THEN /\ mcall' = MemEnded("finalize", "throw", <<>>)
          /\ UNCHANGED <<indexVars, storage, file>>
     ELSE \E r \in {saveAndIndexUnits(Lazy, units, bcall'.result, providerOk)} :
             /\ storage' = r.st.storage
             /\ file' = r.st.file
             /\ units' = r.units
             /\ IF r.threw
                THEN /\ needsRebuild' = needsRebuild
                     /\ UNCHANGED bm25
                ELSE /\ needsRebuild' = FALSE
                     /\ bm25' = rebuildLexicalIndex(r.units, bm25)
             /\ mcall' = MemEnded("finalize", IF r.threw THEN "throw" ELSE "ok",
                                  bcall'.result)
  /\ UNCHANGED <<mem, besideMem>>

\* SimpleMem.search: initialize, then hybridSearch
MemSearch(query, providerOk, searchOk) ==
  /\ MemIdle
  /\ \E i \in {initialize(Lazy, units, bm25, needsRebuild, mem.initialized, providerOk)} :
        /\ storage' = i.st.storage
        /\ file' = i.st.file
        /\ units' = i.units
        /\ mem' = [mem EXCEPT !.initialized = i.initialized]
        /\ IF i.threw
           THEN /\ bm25' = i.bm25
                /\ needsRebuild' = i.dirty
                /\ mcall' = MemEnded("search", "throw", <<>>)
           ELSE \E r \in {hybridSearch(i.units, i.bm25, i.dirty, query, NoFilter, <<>>,
                                       searchOk)} :
                   /\ bm25' = r.bm25
                   /\ needsRebuild' = FALSE
                   /\ mcall' = MemEnded("search", IF r.threw THEN "throw" ELSE "ok",
                                        <<>>)
  /\ UNCHANGED <<builderVars, besideMem>>

\* SimpleMem.import
MemImport(data, providerOk) ==
  /\ MemIdle
  /\ \E imported \in {FileStorage_import(Lazy, data)} :
     \E indexed \in {addUnits(units, data, providerOk)} :
        /\ storage' = [imported.storage EXCEPT !.units = MapSetAll(@, indexed.batch)]
        /\ file' = imported.file
        /\ units' = indexed.units
        /\ IF indexed.threw
           THEN /\ UNCHANGED <<bm25, needsRebuild, mem>>
                /\ mcall' = MemEnded("import", "throw", <<>>)
           ELSE /\ bm25' = rebuildLexicalIndex(indexed.units, bm25)
                /\ needsRebuild' = FALSE
                /\ mem' = [mem EXCEPT !.initialized = TRUE]
                /\ mcall' = MemEnded("import", "ok", data)
  /\ UNCHANGED <<builderVars, besideMem>>

\* SimpleMem.clear
MemClear ==
  /\ MemIdle
  /\ mcall.name # "clear"
  /\ \E cleared \in {FileStorage_clear(Lazy)} :
        /\ storage' = cleared.storage
        /\ file' = cleared.file
  /\ units' = <<>>
  /\ bm25' = NewBM25
  /\ needsRebuild' = FALSE
  /\ builder' = reset(builder)
  /\ bcall' = [NoBCall EXCEPT !.name = "reset", !.pc = "done"]
  /\ fed' = [fed EXCEPT !.accepted = {}, !.handed = {}]
  /\ mem' = [dialogueCounter |-> 0, initialized |-> FALSE]
  /\ mcall' = MemEnded("clear", "ok", <<>>)
  /\ UNCHANGED besideMem

InitMem ==
  /\ IndexAtRest
  /\ RetrieverAtRest
  /\ builder = NewBuilder(MemCompression)
  /\ bcall = NoBCall
  /\ fed = NoFed
  /\ \E autoSave \in BOOLEAN, f \in MemFiles :
        /\ storage = NewStorage(autoSave)
        /\ file = f
  /\ forced = [storage |-> NewStorage(TRUE), file |-> NoFile, last |-> "none"]
  /\ inflight = NoInflight
  /\ mem = NewMem
  /\ mcall = NoMCall

NextMem ==
  \/ \E u \in Utterances : MemAddDialogue(u[1], u[2])
  \/ \E first \in Utterances, second \in Utterances : MemAddDialogues(first, second)
  \/ /\ mcall.pc = "building"
     /\ BuilderLoopTest
     /\ UNCHANGED <<besideBuilder>>
  \/ /\ mcall.pc = "building"
     /\ \E scoreReply \in ScoreReplies(builder, MemEmbedReplies),
           extractReply \in ExtractReplies(fed.uuids), updateReply \in MemEmbedReplies :
             BuilderWindowProcessed(scoreReply, extractReply, updateReply)
     /\ UNCHANGED <<besideBuilder>>
  \/ \E providerOk \in BOOLEAN : MemSaveAndIndex(providerOk)
  \/ \E scoreReply \in ScoreReplies(builder, MemEmbedReplies),
        extractReply \in ExtractReplies(fed.uuids), updateReply \in MemEmbedReplies,
        providerOk \in BOOLEAN :
          MemFinalize(scoreReply, extractReply, updateReply, providerOk)
  \/ \E providerOk \in BOOLEAN, searchOk \in BOOLEAN : MemSearch(Q2, providerOk, searchOk)
  \/ \E providerOk \in BOOLEAN : MemImport(<<U3>>, providerOk)
  \/ MemClear

SpecMem == InitMem /\ [][NextMem]_vars

-----------------------------------------------------------------------------
(* Claims about the index and the storage of a SimpleMem *)

\* the ids of the units getAllMemories() returns
StorageIds == IdsOf(FileStorage_getAllUnits(Lazy).storage.units)

\* C38: once SimpleMem has initialized, after every SimpleMem operation has
\* completed (normally or by throwing) the set of unit ids in the hybrid index
\* equals the set of unit ids in storage.
C38_Original ==
  (mem.initialized /\ mcall.pc = "done") => IdsOf(units) = StorageIds

====
